---- MODULE Spec2Model ----
(***************************************************************************)
(* A model of the Intent compiler (luisgizirian/compiler): the scanner,    *)
(* the recursive-descent parser with its error recovery, the two-pass      *)
(* analyzer, the JavaScript lowerer's contract instrumentation, and the    *)
(* driver Compiler.compile that runs them in sequence.                     *)
(*                                                                         *)
(* Strings of the program are sequences of one-character strings, offsets  *)
(* are 0-based as in the source, sequence positions are 1-based.           *)
(***************************************************************************)
EXTENDS Integers, Sequences, FiniteSets, TLC

VARIABLES lexer, parser, analyzer, gen, comp, js, typing

vars == <<lexer, parser, analyzer, gen, comp, js, typing>>

(***************************************************************************)
(* Generic helpers                                                         *)
(***************************************************************************)
RECURSIVE Join(_)
Join(s) == IF s = <<>> THEN "" ELSE Head(s) \o Join(Tail(s))

RECURSIVE SeqsUpTo(_, _)
SeqsUpTo(S, n) ==
  IF n = 0 THEN { <<>> }
  ELSE LET shorter == SeqsUpTo(S, n - 1)
       IN  shorter \cup { Append(s, x) : s \in shorter, x \in S }

Min(a, b) == IF a < b THEN a ELSE b

\* F(value), the value being computed once however often F uses it.
Bind(value, F(_)) == CHOOSE y \in { F(x) : x \in {value} } : TRUE

(***************************************************************************)
(* src/lexer/token.ts                                                      *)
(***************************************************************************)
KEYWORDS ==
  [ fn |-> "FN", let |-> "LET", mut |-> "MUT", type |-> "TYPE",
    struct |-> "STRUCT", enum |-> "ENUM", trait |-> "TRAIT", impl |-> "IMPL",
    contract |-> "CONTRACT", intent |-> "INTENT", effect |-> "EFFECT",
    capability |-> "CAPABILITY", requires |-> "REQUIRES",
    ensures |-> "ENSURES", invariant |-> "INVARIANT", if |-> "IF",
    else |-> "ELSE", match |-> "MATCH", for |-> "FOR", while |-> "WHILE",
    return |-> "RETURN", import |-> "IMPORT", export |-> "EXPORT",
    where |-> "WHERE", pure |-> "PURE", extern |-> "EXTERN",
    true |-> "TRUE", false |-> "FALSE", nil |-> "NIL", self |-> "SELF",
    Self |-> "SELF", old |-> "OLD", forall |-> "FORALL",
    exists |-> "EXISTS", in |-> "IN", as |-> "AS",
    Int |-> "INT", Int8 |-> "INT8", Int16 |-> "INT16", Int32 |-> "INT32",
    Int64 |-> "INT64", UInt |-> "UINT", Float32 |-> "FLOAT32",
    Float64 |-> "FLOAT64", Bool |-> "BOOL", Char |-> "CHAR_TYPE",
    String |-> "STRING_TYPE", Void |-> "VOID", Never |-> "NEVER",
    Result |-> "RESULT", Option |-> "OPTION" ]

createToken(type, value, line, column, offset) ==
  [ type |-> type, value |-> value, line |-> line, column |-> column,
    offset |-> offset, length |-> Len(value) ]

(***************************************************************************)
(* src/lexer/lexer.ts : class Lexer.  A lexer object is a record of its    *)
(* fields; `threw` records that an exception left tokenize().  Literal     *)
(* payloads of tokens are not carried, only whether computing them throws. *)
(***************************************************************************)
NUL == "NUL"              \* the '\0' that peek() answers at the end
UNDEF == "undefined"      \* source[i] for i past the end

Digits == {"0", "1", "2", "3", "4", "5", "6", "7", "8", "9"}
OctalDigits == {"0", "1", "2", "3", "4", "5", "6", "7"}
HexLower == <<"0", "1", "2", "3", "4", "5", "6", "7", "8", "9",
              "a", "b", "c", "d", "e", "f">>
HexUpper == <<"0", "1", "2", "3", "4", "5", "6", "7", "8", "9",
              "A", "B", "C", "D", "E", "F">>
HexDigits == {HexLower[i] : i \in 1..16} \cup {HexUpper[i] : i \in 1..16}
Alpha ==
  {"a", "b", "c", "d", "e", "f", "g", "h", "i", "j", "k", "l", "m", "n", "o",
   "p", "q", "r", "s", "t", "u", "v", "w", "x", "y", "z",
   "A", "B", "C", "D", "E", "F", "G", "H", "I", "J", "K", "L", "M", "N", "O",
   "P", "Q", "R", "S", "T", "U", "V", "W", "X", "Y", "Z"}
AlphaNumeric == Alpha \cup Digits

NewLexer(source) ==
  [ source |-> source, tokens |-> <<>>, errors |-> <<>>,
    start |-> 0, current |-> 0, line |-> 1, column |-> 1, lineStart |-> 0,
    threw |-> FALSE, done |-> FALSE ]

substring(s, from, to) == SubSeq(s, from + 1, Min(to, Len(s)))

isAtEnd(L) == L.current >= Len(L.source)

charAt(L, i) == IF i < Len(L.source) THEN L.source[i + 1] ELSE UNDEF

advance(L) == [L EXCEPT !.current = @ + 1, !.column = @ + 1]

peek(L) == IF isAtEnd(L) THEN NUL ELSE L.source[L.current + 1]

peekNext(L) ==
  IF L.current + 1 >= Len(L.source) THEN NUL ELSE L.source[L.current + 2]

\* match(expected) answers matches(L, expected) and, when true, leaves the
\* lexer as advance(L).
matches(L, expected) == ~isAtEnd(L) /\ L.source[L.current + 1] = expected

addToken(L, type) ==
  LET text == substring(L.source, L.start, L.current)
  IN  [L EXCEPT !.tokens =
         Append(@, createToken(type, text, L.line, L.column - Len(text),
                               L.start))]

addTokenWithLiteral(L, type, line, column) ==
  LET text == substring(L.source, L.start, L.current)
  IN  [L EXCEPT !.tokens =
         Append(@, createToken(type, text, line, column, L.start))]

lexerError(L, message) ==
  addToken([L EXCEPT !.errors =
              Append(@, [message |-> message, line |-> L.line,
                         column |-> L.column, offset |-> L.current])],
           "INVALID")

\* while (cond(peek())) advance(), for a condition that is membership in a
\* set of characters (peek() at the end is NUL, in no such set).
RECURSIVE advanceWhile(_, _)
advanceWhile(L, S) ==
  IF peek(L) \in S THEN advanceWhile(advance(L), S) ELSE L

\* while (peek() !== stop && !isAtEnd()) advance()
RECURSIVE advanceUntil(_, _)
advanceUntil(L, stop) ==
  IF peek(L) # stop /\ ~isAtEnd(L) THEN advanceUntil(advance(L), stop) ELSE L

(***************************************************************************)
(* parseInt(text, 16) as ECMAScript defines it: leading white space is     *)
(* skipped, then an optional sign, then an optional 0x, then the longest   *)
(* prefix of hex digits; no digit at all gives NaN.  The magnitude         *)
(* saturates one past MaxCodePoint, which is all fromCodePoint looks at.   *)
(***************************************************************************)
MaxCodePoint == 1114111
WhiteSpace == {" ", "\t", "\n", "\r", "\f"}

HexDigitValue(c) ==
  (CHOOSE i \in 1..16 : HexLower[i] = c \/ HexUpper[i] = c) - 1

RECURSIVE stripWhiteSpace(_)
stripWhiteSpace(s) ==
  IF s # <<>> /\ Head(s) \in WhiteSpace THEN stripWhiteSpace(Tail(s)) ELSE s

RECURSIVE hexPrefixValue(_, _)
hexPrefixValue(s, acc) ==
  IF s # <<>> /\ Head(s) \in HexDigits
  THEN hexPrefixValue(Tail(s),
                      Min(acc * 16 + HexDigitValue(Head(s)), MaxCodePoint + 1))
  ELSE acc

parseIntHex(text) ==
  LET t0 == stripWhiteSpace(text)
      signed == t0 # <<>> /\ Head(t0) \in {"+", "-"}
      t1 == IF signed THEN Tail(t0) ELSE t0
      prefixed == Len(t1) >= 2 /\ t1[1] = "0" /\ t1[2] \in {"x", "X"}
      t2 == IF prefixed THEN Tail(Tail(t1)) ELSE t1
      mag == hexPrefixValue(t2, 0)
  IN  IF t2 = <<>> \/ Head(t2) \notin HexDigits
      THEN [nan |-> TRUE, value |-> 0]
      ELSE [nan |-> FALSE,
            value |-> IF signed /\ Head(t0) = "-" THEN 0 - mag ELSE mag]

\* String.fromCodePoint(n) throws a RangeError unless n is an integer in
\* 0 .. 0x10FFFF.
fromCodePointThrows(n) == n.nan \/ n.value < 0 \/ n.value > MaxCodePoint

escapeSequence(L) ==
  LET c == charAt(L, L.current)
      A == advance(L)
  IN  CASE c \in {"n", "t", "r", "\\", "\"", "'", "0"} -> A
        [] c = "x" -> advance(advance(A))
        [] c = "u" ->
             IF matches(A, "{")
             THEN LET B == advanceUntil(advance(A), "}")
                      hex == substring(B.source, A.current + 1, B.current)
                  IN  IF ~matches(B, "}")
                      THEN lexerError(B, "Unterminated unicode escape")
                      ELSE IF fromCodePointThrows(parseIntHex(hex))
                           THEN [advance(B) EXCEPT !.threw = TRUE]
                           ELSE advance(B)
             ELSE lexerError(A, "Invalid unicode escape")
        [] OTHER -> lexerError(A, "Invalid escape sequence: \\" \o c)

RECURSIVE stringLoop(_)
stringLoop(L) ==
  IF peek(L) # "\"" /\ ~isAtEnd(L)
  THEN LET L1 == IF peek(L) = "\n"
                 THEN [L EXCEPT !.line = @ + 1, !.column = 0,
                                !.lineStart = L.current + 1]
                 ELSE L
           L2 == IF peek(L1) = "\\"
                 THEN escapeSequence(advance(L1))
                 ELSE advance(L1)
       IN  IF L2.threw THEN L2 ELSE stringLoop(L2)
  ELSE L

string(L) ==
  LET startLine == L.line
      startColumn == L.column - 1
      B == stringLoop(L)
  IN  IF B.threw THEN B
      ELSE IF isAtEnd(B) THEN lexerError(B, "Unterminated string")
      ELSE addTokenWithLiteral(advance(B), "STRING", startLine, startColumn)

char(L) ==
  LET startColumn == L.column - 1
      L1 == IF peek(L) = "\\" THEN escapeSequence(advance(L)) ELSE advance(L)
  IN  IF L1.threw THEN L1
      ELSE IF peek(L1) # "'"
           THEN lexerError(L1, "Unterminated character literal")
           ELSE addTokenWithLiteral(advance(L1), "CHAR", L1.line, startColumn)

RECURSIVE blockComment(_, _)
blockComment(L, depth) ==
  IF depth > 0 /\ ~isAtEnd(L)
  THEN IF peek(L) = "/" /\ peekNext(L) = "*"
       THEN blockComment(advance(advance(L)), depth + 1)
       ELSE IF peek(L) = "*" /\ peekNext(L) = "/"
       THEN blockComment(advance(advance(L)), depth - 1)
       ELSE LET L1 == IF peek(L) = "\n"
                      THEN [L EXCEPT !.line = @ + 1, !.column = 0,
                                     !.lineStart = L.current + 1]
                      ELSE L
            IN  blockComment(advance(L1), depth)
  ELSE IF depth > 0 THEN lexerError(L, "Unterminated block comment") ELSE L

\* while (peek() === '_' && isDigit(peekNext())) { advance(); digits }
RECURSIVE digitGroups(_)
digitGroups(L) ==
  IF peek(L) = "_" /\ peekNext(L) \in Digits
  THEN digitGroups(advanceWhile(advance(L), Digits))
  ELSE L

number(L) ==
  LET startColumn == L.column - 1
      next == peek(L)
      zero == charAt(L, L.start) = "0"
  IN  IF zero /\ next \in {"x", "X"}
      THEN LET B == advanceWhile(advance(L), HexDigits)
           IN  addTokenWithLiteral(B, "INTEGER", B.line, startColumn)
      ELSE IF zero /\ next \in {"b", "B"}
      THEN LET B == advanceWhile(advance(L), {"0", "1"})
           IN  addTokenWithLiteral(B, "INTEGER", B.line, startColumn)
      ELSE IF zero /\ next \in {"o", "O"}
      THEN LET B == advanceWhile(advance(L), OctalDigits)
           IN  addTokenWithLiteral(B, "INTEGER", B.line, startColumn)
      ELSE LET D == digitGroups(advanceWhile(L, Digits))
               fraction == peek(D) = "." /\ peekNext(D) \in Digits
               F == IF fraction THEN advanceWhile(advance(D), Digits) ELSE D
               exponent == peek(F) \in {"e", "E"}
               E1 == IF exponent THEN advance(F) ELSE F
               E2 == IF exponent /\ peek(E1) \in {"+", "-"}
                     THEN advance(E1) ELSE E1
               E3 == IF exponent THEN advanceWhile(E2, Digits) ELSE F
               isFloat == fraction \/ exponent
           IN  addTokenWithLiteral(E3, IF isFloat THEN "FLOAT" ELSE "INTEGER",
                                   E3.line, startColumn)

identifier(L) ==
  LET B == advanceWhile(L, AlphaNumeric \cup {"_"})
      text == substring(B.source, B.start, B.current)
      word == Join(text)
      type == IF word \in DOMAIN KEYWORDS THEN KEYWORDS[word]
              ELSE "IDENTIFIER"
  IN  IF type = "TRUE" \/ type = "FALSE"
      THEN addTokenWithLiteral(B, "BOOLEAN", B.line, B.column - Len(text))
      ELSE IF type = "NIL"
      THEN addTokenWithLiteral(B, "NIL", B.line, B.column - Len(text))
      ELSE addToken(B, type)

SingleCharTokens ==
  ("(" :> "LPAREN") @@ (")" :> "RPAREN") @@ ("{" :> "LBRACE") @@
  ("}" :> "RBRACE") @@ ("[" :> "LBRACKET") @@ ("]" :> "RBRACKET") @@
  ("," :> "COMMA") @@ (";" :> "SEMICOLON") @@ ("?" :> "QUESTION") @@
  ("@" :> "AT") @@ ("#" :> "HASH") @@ ("~" :> "BIT_NOT") @@
  (":" :> "COLON") @@ ("%" :> "PERCENT") @@ ("^" :> "BIT_XOR")

\* One case of the switch whose body is if (match(a)) X else if (match(b)) Y
\* else Z.
twoWay(A, a, X, b, Y, Z) ==
  IF matches(A, a) THEN addToken(advance(A), X)
  ELSE IF matches(A, b) THEN addToken(advance(A), Y)
  ELSE addToken(A, Z)

oneWay(A, a, X, Z) ==
  IF matches(A, a) THEN addToken(advance(A), X) ELSE addToken(A, Z)

scanToken(L) ==
  LET c == charAt(L, L.current)
      A == advance(L)
  IN  CASE c \in DOMAIN SingleCharTokens -> addToken(A, SingleCharTokens[c])
        [] c = "+" -> oneWay(A, "=", "PLUS_ASSIGN", "PLUS")
        [] c = "-" -> twoWay(A, ">", "ARROW", "=", "MINUS_ASSIGN", "MINUS")
        [] c = "*" -> twoWay(A, "*", "POWER", "=", "STAR_ASSIGN", "STAR")
        [] c = "/" ->
             IF matches(A, "/") THEN advanceUntil(advance(A), "\n")
             ELSE IF matches(A, "*") THEN blockComment(advance(A), 1)
             ELSE oneWay(A, "=", "SLASH_ASSIGN", "SLASH")
        [] c = "=" -> twoWay(A, "=", "EQ", ">", "FAT_ARROW", "ASSIGN")
        [] c = "!" -> oneWay(A, "=", "NEQ", "NOT")
        [] c = "<" -> twoWay(A, "=", "LTE", "<", "SHL", "LT")
        [] c = ">" -> twoWay(A, "=", "GTE", ">", "SHR", "GT")
        [] c = "&" -> oneWay(A, "&", "AND", "BIT_AND")
        [] c = "|" -> oneWay(A, "|", "OR", "BIT_OR")
        [] c = "." ->
             IF matches(A, ".")
             THEN oneWay(advance(A), "=", "RANGE_INCL", "RANGE")
             ELSE addToken(A, "DOT")
        [] c \in {" ", "\r", "\t"} -> A
        [] c = "\n" ->
             [A EXCEPT !.line = @ + 1, !.column = 1, !.lineStart = A.current]
        [] c = "\"" -> string(A)
        [] c = "'" -> char(A)
        [] c \in Digits -> number(A)
        [] c \in Alpha -> identifier(A)
        [] c = "_" ->
             IF peek(A) \in AlphaNumeric THEN identifier(A)
             ELSE addToken(A, "UNDERSCORE")
        [] OTHER -> lexerError(A, "Unexpected character: '" \o c \o "'")

\* One iteration of the loop of tokenize().
tokenizeStep(L) == scanToken([L EXCEPT !.start = L.current])

\* What tokenize() does once the loop has ended.
tokenizeEnd(L) ==
  [L EXCEPT !.tokens = Append(@, createToken("EOF", <<>>, L.line, L.column,
                                             L.current)),
            !.done = TRUE]

\* tokenize(source): the lexer after the whole call, or at its throw.
RECURSIVE runLexer(_)
runLexer(L0) ==
  Bind(L0, LAMBDA L :
    IF L.threw \/ L.done THEN L
    ELSE IF isAtEnd(L) THEN tokenizeEnd(L)
    ELSE runLexer(tokenizeStep(L)))

tokenize(source) == runLexer(NewLexer(source))

(***************************************************************************)
(* Source texts given to the scanner: every text of at most MaxSrcLen      *)
(* characters over LexAlphabet, and some longer ones that exercise the     *)
(* escapes, numbers, comments and keywords.                                *)
(***************************************************************************)
MaxSrcLen == 4
LexAlphabet == {"\"", "'", "\\", "u", "\n", "/", "*", "$"}

LexExtraSources ==
  { <<"\"", "\\", "u", "{", "}", "\"">>,
    <<"\"", "\\", "u", "{", "4", "1", "}", "\"">>,
    <<"\"", "\\", "u", "{", "1", "1", "0", "0", "0", "0", "}", "\"">>,
    <<"\"", "\\", "u", "{", "1", "0", "F", "F", "F", "F", "}", "\"">>,
    <<"\"", "\\", "u", "{", "z", "}", "\"">>,
    <<"\"", "\\", "u", "{", "-", "1", "}", "\"">>,
    <<"'", "\\", "u", "{", "}", "'">>,
    <<"\"", "\\", "u", "{", "4", "1">>,
    <<"\"", "\\", "x">>,
    <<"\"", "\\", "x", "4">>,
    <<"\"", "\\", "x", "4", "1", "\"">>,
    <<"\"", "\\", "q", "\"", "\n", "#", "$">>,
    <<"'", "a", "'", " ", "'", "a", "b">>,
    <<"/", "*", "/", "*", "*", "/", "\n", "*", "/", "$", "/", "*">>,
    <<"0", "x", "F", "f", " ", "0", "b", "1", "2", " ", "0", "o", "7", "8">>,
    <<"1", "_", "0", ".", "5", "e", "-", "3", " ", "1", ".", ".", "=", "2">>,
    <<"f", "n", " ", "_", "x", "(", ")", "-", ">", "_", ";", "t", "r", "u",
      "e">>,
    <<"c", "o", "n", "t", "r", "a", "c", "t", " ", "C", " ", "{", " ", "x",
      " ", "}">>,
    <<"c", "o", "n", "t", "r", "a", "c", "t", " ", "C", " ", "{", " ", "}">>,
    <<"f", "n", " ", "f", "(", ")", " ", "{", " ", "}">>,
    <<"f", "n", " ", "f", "(", ")", " ", "{", " ", "$", " ", "}">>,
    <<"f", "n", " ", "(", ")", " ", "{", " ", "}">> }

LexSources == SeqsUpTo(LexAlphabet, MaxSrcLen) \cup LexExtraSources

(***************************************************************************)
(* The parser (class Parser).  A parser object is a record of its fields   *)
(* tokens, current and errors, with                                        *)
(*   threw   : a ParseError is propagating to the catch of parse(),        *)
(*   looping : control is at the head of the loop of contractBody() with   *)
(*             a token under the cursor that the loop does not consume,    *)
(*   n       : the length of the list the last list-parsing method built,  *)
(*   pc      : where control is in parse(): "parse" at the head of its     *)
(*             loop, "synchronize" in its catch, "contractBody" and        *)
(*             "annotations" in the loop of contractBody(), "done" after   *)
(*             the return.                                                 *)
(* The syntax tree is not built; each method is the cursor movement and    *)
(* the errors of the method of the same name.  Every method leaves a       *)
(* parser that threw or loops as it is, which is how the exception skips   *)
(* the rest of the callers.  Methods are prefixed P_ because the lexer has *)
(* methods of the same names.                                              *)
(***************************************************************************)
NewParser(tokens) ==
  [ tokens |-> SelectSeq(tokens, LAMBDA t : t.type # "INVALID"),
    current |-> 0, errors |-> <<>>,
    threw |-> FALSE, looping |-> FALSE, n |-> 0, pc |-> "parse" ]

Halt(P) == P.threw \/ P.looping

P_peek(P) == P.tokens[P.current + 1]

P_previous(P) == P.tokens[P.current]

P_isAtEnd(P) == P_peek(P).type = "EOF"

P_advance(P0) ==
  Bind(P0, LAMBDA P :
    IF Halt(P) \/ P_isAtEnd(P) THEN P ELSE [P EXCEPT !.current = @ + 1])

P_check(P0, type) ==
  Bind(P0, LAMBDA P : ~Halt(P) /\ ~P_isAtEnd(P) /\ P_peek(P).type = type)

\* matchAny(types) answers P_checkAny(P, types) and then advances.
P_checkAny(P0, types) ==
  Bind(P0, LAMBDA P :
    ~Halt(P) /\ ~P_isAtEnd(P) /\ P_peek(P).type \in types)

\* throw this.error(token, message)
P_error(P0, token, message) ==
  Bind(P0, LAMBDA P :
    IF Halt(P) THEN P
    ELSE [P EXCEPT !.errors = Append(@, [message |-> message,
                                         line |-> token.line,
                                         column |-> token.column,
                                         offset |-> token.offset]),
                   !.threw = TRUE])

P_consume(P0, type, message) ==
  Bind(P0, LAMBDA P :
    IF P_check(P, type) THEN P_advance(P)
    ELSE IF Halt(P) THEN P ELSE P_error(P, P_peek(P), message))

P_identifier(P) == P_consume(P, "IDENTIFIER", "Expected identifier")

\* The condition of the body loops: !check(RBRACE) && !isAtEnd()
P_inBody(P0) ==
  Bind(P0, LAMBDA P : ~Halt(P) /\ ~P_check(P, "RBRACE") /\ ~P_isAtEnd(P))

(***************************************************************************)
(* The shapes of control the methods are written in.  A method's argument  *)
(* is the parser before it and its value the parser after it.              *)
(***************************************************************************)
\* match(type);
P_match(P0, type) ==
  Bind(P0, LAMBDA P : IF P_check(P, type) THEN P_advance(P) ELSE P)

\* if (match(type)) Then()
P_ifMatch(P0, type, Then(_)) ==
  Bind(P0, LAMBDA P : IF P_check(P, type) THEN Then(P_advance(P)) ELSE P)

\* if (matchAny(types)) Then()
P_ifMatchAny(P0, types, Then(_)) ==
  Bind(P0, LAMBDA P :
    IF P_checkAny(P, types) THEN Then(P_advance(P)) ELSE P)

\* if (check(type)) Then()
P_ifCheck(P0, type, Then(_)) ==
  Bind(P0, LAMBDA P : IF P_check(P, type) THEN Then(P) ELSE P)

\* if (!check(type)) Then()
P_unlessCheck(P0, type, Then(_)) ==
  Bind(P0, LAMBDA P : IF P_check(P, type) \/ Halt(P) THEN P ELSE Then(P))

\* do { Item() } while (match(separator))
RECURSIVE P_doWhileMatch(_, _, _)
P_doWhileMatch(P, Item(_), separator) ==
  P_ifMatch(Item(P), separator,
            LAMBDA Q : P_doWhileMatch(Q, Item, separator))

\* while (!check(close) && !isAtEnd()) Body()
RECURSIVE P_whileInBody(_, _, _)
P_whileInBody(P0, Body(_), close) ==
  Bind(P0, LAMBDA P :
    IF ~Halt(P) /\ ~P_check(P, close) /\ ~P_isAtEnd(P)
    THEN P_whileInBody(Body(P), Body, close)
    ELSE P)

PrimitiveTypeTokens ==
  {"INT", "INT8", "INT16", "INT32", "INT64", "UINT", "FLOAT32", "FLOAT64",
   "BOOL", "CHAR_TYPE", "STRING_TYPE", "VOID"}

(***************************************************************************)
(* The methods of the recursive descent that call one another in cycles    *)
(* are reached through one operator, P_call, defined after them all.       *)
(***************************************************************************)
RECURSIVE P_call(_, _)

P_typeExpression(P) == P_call("typeExpression", P)

P_expression(P) == P_call("expression", P)

P_declaration(P) == P_call("declaration", P)

P_blockStatement(P) == P_call("blockStatement", P)

P_annotations(P) == P_call("annotations", P)

P_pattern(P) == P_call("pattern", P)

\* do { list.push(typeExpression()) } while (match(separator)), the list
\* holding k elements before; n is its length after.
RECURSIVE P_typeList(_, _, _)
P_typeList(P, separator, k) ==
  Bind(P_typeExpression(P), LAMBDA Q :
    IF P_check(Q, separator) THEN P_typeList(P_advance(Q), separator, k + 1)
    ELSE IF Halt(Q) THEN Q ELSE [Q EXCEPT !.n = k + 1])

\* if (!check(close)) do { typeExpression() } while (match(COMMA))
P_typesUntil(P0, close) ==
  Bind(P0, LAMBDA P :
    IF P_check(P, close) THEN [P EXCEPT !.n = 0]
    ELSE IF Halt(P) THEN P ELSE P_typeList(P, "COMMA", 0))

P_genericArguments(P0) ==
  Bind(P0, LAMBDA P :
    IF P_check(P, "LT")
    THEN P_consume(P_typeList(P_advance(P), "COMMA", 0), "GT",
                   "Expected '>' after generic arguments")
    ELSE IF Halt(P) THEN P ELSE [P EXCEPT !.n = 0])

\* while (match(DOT)) identifier()
RECURSIVE P_dottedPath(_)
P_dottedPath(P) ==
  P_ifMatch(P, "DOT", LAMBDA Q : P_dottedPath(P_identifier(Q)))

\* if (check(AT) && peekNext()?.type === EFFECT) { ... }
P_functionTypeEffects(P0) ==
  Bind(P0, LAMBDA P :
    IF P_check(P, "AT") /\ P.current + 2 <= Len(P.tokens)
       /\ P.tokens[P.current + 2].type = "EFFECT"
    THEN P_consume(
           P_typeList(P_consume(P_advance(P_advance(P)), "LBRACKET",
                                "Expected '[' after @effect"),
                      "COMMA", 0),
           "RBRACKET", "Expected ']' after effect list")
    ELSE P)

\* if (args.length !== 2) throw this.error(token, ...)
P_resultArity(A0, token) ==
  Bind(A0, LAMBDA A :
    IF ~Halt(A) /\ A.n # 2
    THEN P_error(A, token, "Result type requires exactly two type arguments")
    ELSE A)

P_arraySize(E) ==
  P_ifMatch(E, "SEMICOLON",
            LAMBDA S : P_consume(S, "INTEGER", "Expected array size"))

P_functionType(P) ==
  P_functionTypeEffects(P_typeExpression(
    P_consume(
      P_consume(P_typesUntil(P_consume(P, "LPAREN", "Expected '(' after fn"),
                             "RPAREN"),
                "RPAREN", "Expected ')' after function parameters"),
      "ARROW", "Expected '->' after function parameters")))

P_primaryType(P0) ==
  Bind(P0, LAMBDA P :
    CASE Halt(P) -> P
      [] P_checkAny(P, PrimitiveTypeTokens) -> P_advance(P)
      [] P_check(P, "NEVER") -> P_advance(P)
      [] P_check(P, "RESULT") ->
           P_resultArity(P_genericArguments(P_advance(P)), P_peek(P))
      [] P_check(P, "LBRACKET") ->
           P_consume(P_arraySize(P_typeExpression(P_advance(P))), "RBRACKET",
                     "Expected ']' after array type")
      [] P_check(P, "LPAREN") ->
           P_consume(P_typesUntil(P_advance(P), "RPAREN"), "RPAREN",
                     "Expected ')' after tuple type")
      [] P_check(P, "FN") -> P_functionType(P_advance(P))
      [] P_check(P, "IDENTIFIER") ->
           P_genericArguments(P_dottedPath(P_advance(P)))
      [] OTHER -> P_error(P, P_peek(P), "Expected type expression"))

P_referenceType(P0) ==
  Bind(P0, LAMBDA P :
    IF P_check(P, "BIT_AND")
    THEN P_primaryType(P_match(P_advance(P), "MUT"))
    ELSE P_primaryType(P))

P_optionalType(P) == P_match(P_referenceType(P), "QUESTION")

\* do { pattern() } while (match(COMMA))
P_patternList(P) == P_doWhileMatch(P, P_pattern, "COMMA")

\* if (!check(RPAREN)) patterns; consume(RPAREN, message)
P_patternsInParens(P, message) ==
  P_consume(P_unlessCheck(P, "RPAREN", P_patternList), "RPAREN", message)

P_structPatternField(P) ==
  P_match(P_ifMatch(P_identifier(P), "COLON", P_pattern), "COMMA")

\* The loop of the struct pattern, which a '..' breaks.
RECURSIVE P_structPatternFields(_)
P_structPatternFields(P0) ==
  Bind(P0, LAMBDA P :
    IF P_inBody(P)
    THEN IF P_check(P, "RANGE") THEN P_advance(P)
         ELSE P_structPatternFields(P_structPatternField(P))
    ELSE P)

P_enumPatternFields(V) ==
  P_ifMatch(V, "LPAREN",
            LAMBDA F : P_patternsInParens(F,
                         "Expected ')' after enum pattern"))

\* After the name of an identifier pattern: B is the parser after
\* match(COLON), colon whether that matched.
P_patternAfterName(B0, colon) ==
  Bind(B0, LAMBDA B :
    IF colon /\ P_check(B, "COLON")
    THEN P_enumPatternFields(P_identifier(P_advance(B)))
    ELSE IF P_check(B, "LBRACE")
    THEN P_consume(P_structPatternFields(P_advance(B)), "RBRACE",
                   "Expected '}' after struct pattern")
    ELSE B)

P_identifierPattern(A0) ==
  Bind(A0, LAMBDA A :
    P_patternAfterName(P_match(A, "COLON"), P_check(A, "COLON")))

P_patternBody(P0) ==
  Bind(P0, LAMBDA P :
    CASE Halt(P) -> P
      [] P_check(P, "UNDERSCORE") -> P_advance(P)
      [] P_checkAny(P, {"INTEGER", "FLOAT", "STRING", "BOOLEAN"}) ->
           P_advance(P)
      [] P_check(P, "LPAREN") ->
           P_patternsInParens(P_advance(P),
                              "Expected ')' after tuple pattern")
      [] P_check(P, "IDENTIFIER") -> P_identifierPattern(P_advance(P))
      [] OTHER -> P_error(P, P_peek(P), "Expected pattern"))

\* do { expression() } while (match(COMMA))
P_expressionList(P) == P_doWhileMatch(P, P_expression, "COMMA")

\* if (!check(close)) expressions; consume(close, message)
P_expressionsUntil(P, close, message) ==
  P_consume(P_unlessCheck(P, close, P_expressionList), close, message)

\* forallExpression and existsExpression: do { identifier();
\* if (match(IN)) expression() } while (match(COMMA))
P_quantifierBinding(P) == P_ifMatch(P_identifier(P), "IN", P_expression)

P_forallExpression(P) ==
  P_expression(P_consume(P_doWhileMatch(P, P_quantifierBinding, "COMMA"),
                         "COLON", "Expected ':' after forall bindings"))

P_existsExpression(P) ==
  P_expression(P_consume(P_doWhileMatch(P, P_quantifierBinding, "COMMA"),
                         "COLON", "Expected ':' after exists bindings"))

RECURSIVE P_ifExpression(_)
P_ifExpressionElse(A0) ==
  Bind(A0, LAMBDA A :
    IF P_check(A, "IF") THEN P_ifExpression(P_advance(A))
    ELSE P_blockStatement(A))

P_ifExpression(P) ==
  P_ifMatch(P_blockStatement(P_expression(P)), "ELSE", P_ifExpressionElse)

P_matchArm(P) ==
  P_expression(P_consume(P_ifMatch(P_pattern(P), "IF", P_expression),
                         "FAT_ARROW", "Expected '=>' after match pattern"))

\* arms.push(matchArm()); match(COMMA)
P_matchArmInList(P) == P_match(P_matchArm(P), "COMMA")

P_matchExpression(P) ==
  P_consume(P_whileInBody(P_consume(P_expression(P), "LBRACE",
                                    "Expected '{' after match expression"),
                          P_matchArmInList, "RBRACE"),
            "RBRACE", "Expected '}' after match arms")

P_lambdaParameter(P) ==
  P_ifMatch(P_identifier(P_match(P, "MUT")), "COLON", P_typeExpression)

P_lambdaParameters(P) == P_doWhileMatch(P, P_lambdaParameter, "COMMA")

P_lambdaExpression(P) ==
  P_expression(
    P_ifMatch(P_consume(P_unlessCheck(P, "BIT_OR", P_lambdaParameters),
                        "BIT_OR", "Expected '|' after lambda parameters"),
              "ARROW", P_typeExpression))

P_structExpressionField(P) ==
  P_match(P_expression(P_consume(P_identifier(P), "COLON",
                                 "Expected ':' after field name")),
          "COMMA")

\* The loop of the struct literal, which a '..' spread breaks.
RECURSIVE P_structExpressionFields(_)
P_structExpressionFields(P0) ==
  Bind(P0, LAMBDA P :
    IF P_inBody(P)
    THEN IF P_check(P, "RANGE") THEN P_expression(P_advance(P))
         ELSE P_structExpressionFields(P_structExpressionField(P))
    ELSE P)

P_structExpression(P) ==
  P_consume(P_structExpressionFields(
              P_consume(P, "LBRACE", "Expected '{' for struct literal")),
            "RBRACE", "Expected '}' after struct literal")

P_oldExpression(P) ==
  P_consume(P_expression(P_consume(P, "LPAREN", "Expected '(' after 'old'")),
            "RPAREN", "Expected ')' after old expression")

P_primary(P0) ==
  Bind(P0, LAMBDA P :
    CASE Halt(P) -> P
      [] P_checkAny(P, {"INTEGER", "FLOAT", "STRING", "CHAR", "BOOLEAN",
                        "NIL"}) -> P_advance(P)
      [] P_check(P, "OLD") -> P_oldExpression(P_advance(P))
      [] P_check(P, "FORALL") -> P_forallExpression(P_advance(P))
      [] P_check(P, "EXISTS") -> P_existsExpression(P_advance(P))
      [] P_check(P, "LPAREN") ->
           P_expressionsUntil(P_advance(P), "RPAREN",
                              "Expected ')' after expression")
      [] P_check(P, "LBRACKET") ->
           P_expressionsUntil(P_advance(P), "RBRACKET",
                              "Expected ']' after array")
      [] P_check(P, "LBRACE") -> P_blockStatement(P)
      [] P_check(P, "IF") -> P_ifExpression(P_advance(P))
      [] P_check(P, "MATCH") -> P_matchExpression(P_advance(P))
      [] P_check(P, "BIT_OR") -> P_lambdaExpression(P_advance(P))
      [] P_check(P, "IDENTIFIER") ->
           P_ifCheck(P_advance(P), "LBRACE", P_structExpression)
      [] P_check(P, "SELF") -> P_advance(P)
      [] OTHER -> P_error(P, P_peek(P), "Expected expression"))

\* The while (true) loop of postfix(), after the primary.
RECURSIVE P_postfixLoop(_)
P_postfixLoop(P0) ==
  Bind(P0, LAMBDA P :
    CASE P_check(P, "LPAREN") ->
           P_postfixLoop(P_expressionsUntil(P_advance(P), "RPAREN",
                                            "Expected ')' after arguments"))
      [] P_check(P, "LBRACKET") ->
           P_postfixLoop(P_consume(P_expression(P_advance(P)), "RBRACKET",
                                   "Expected ']' after index"))
      [] P_check(P, "DOT") -> P_postfixLoop(P_identifier(P_advance(P)))
      [] P_check(P, "QUESTION") -> P_postfixLoop(P_advance(P))
      [] OTHER -> P)

P_postfix(P) == P_postfixLoop(P_primary(P))

RECURSIVE P_unary(_)
P_unary(P0) ==
  Bind(P0, LAMBDA P :
    CASE P_checkAny(P, {"NOT", "MINUS", "BIT_NOT"}) -> P_unary(P_advance(P))
      [] P_check(P, "BIT_AND") -> P_unary(P_match(P_advance(P), "MUT"))
      [] P_check(P, "STAR") -> P_unary(P_advance(P))
      [] OTHER -> P_postfix(P))

RECURSIVE P_power(_)
P_power(P) == P_ifMatch(P_unary(P), "POWER", P_power)

\* left = Sub(); while (matchAny(operators)) right = Sub()
RECURSIVE P_leftAssoc(_, _, _)
P_leftAssoc(P, Sub(_), operators) ==
  P_ifMatchAny(Sub(P), operators,
               LAMBDA Q : P_leftAssoc(Q, Sub, operators))

P_multiplicative(P) == P_leftAssoc(P, P_power, {"STAR", "SLASH", "PERCENT"})

P_additive(P) == P_leftAssoc(P, P_multiplicative, {"PLUS", "MINUS"})

P_shift(P) == P_leftAssoc(P, P_additive, {"SHL", "SHR"})

P_bitwiseAnd(P) == P_leftAssoc(P, P_shift, {"BIT_AND"})

P_bitwiseXor(P) == P_leftAssoc(P, P_bitwiseAnd, {"BIT_XOR"})

P_bitwiseOr(P) == P_leftAssoc(P, P_bitwiseXor, {"BIT_OR"})

P_comparison(P) == P_leftAssoc(P, P_bitwiseOr, {"LT", "GT", "LTE", "GTE"})

P_equality(P) == P_leftAssoc(P, P_comparison, {"EQ", "NEQ"})

P_logicalAnd(P) == P_leftAssoc(P, P_equality, {"AND"})

P_logicalOr(P) == P_leftAssoc(P, P_logicalAnd, {"OR"})

RECURSIVE P_assignment(_)
P_assignment(P) ==
  P_ifMatchAny(P_logicalOr(P),
               {"ASSIGN", "PLUS_ASSIGN", "MINUS_ASSIGN", "STAR_ASSIGN",
                "SLASH_ASSIGN"},
               P_assignment)

VerifyName == <<"v", "e", "r", "i", "f", "y">>

P_capabilitySpecField(P) ==
  P_match(P_expression(P_consume(P_identifier(P), "COLON",
                                 "Expected ':' after capability field")),
          "COMMA")

P_effectAnnotation(P) ==
  P_consume(P_typesUntil(P_consume(P, "LBRACKET",
                                   "Expected '[' after @effect"),
                         "RBRACKET"),
            "RBRACKET", "Expected ']' after effect list")

P_capabilityAnnotation(P) ==
  P_consume(P_whileInBody(P_consume(P_identifier(P), "LBRACE",
                                    "Expected '{' after capability name"),
                          P_capabilitySpecField, "RBRACE"),
            "RBRACE", "Expected '}' after capability spec")

P_verifyAnnotation(P) ==
  P_consume(
    P_consume(
      P_consume(
        P_consume(P_consume(P, "LPAREN", "Expected '(' after @verify"),
                  "IDENTIFIER", "Expected 'level'"),
        "COLON", "Expected ':'"),
      "STRING", "Expected level value"),
    "RPAREN", "Expected ')' after @verify")

P_annotation(P0) ==
  Bind(P0, LAMBDA P :
    CASE Halt(P) -> P
      [] P_checkAny(P, {"REQUIRES", "ENSURES", "INVARIANT"}) ->
           P_expression(P_advance(P))
      [] P_check(P, "EFFECT") -> P_effectAnnotation(P_advance(P))
      [] P_check(P, "CAPABILITY") -> P_capabilityAnnotation(P_advance(P))
      [] P_checkAny(P, {"CONTRACT", "INTENT"}) ->
           P_genericArguments(P_identifier(P_advance(P)))
      [] P_check(P, "IDENTIFIER") ->
           IF P_peek(P).value = VerifyName
           THEN P_verifyAnnotation(P_advance(P))
           ELSE P_advance(P)
      [] OTHER -> P)

\* while (check(AT)) { advance(); annotation() }
P_annotationsBody(P) ==
  P_ifMatch(P, "AT", LAMBDA Q : P_annotations(P_annotation(Q)))

P_typeBounds(P) == P_typeList(P, "PLUS", 0)

P_genericParameter(P) ==
  P_ifMatch(P_ifMatch(P_identifier(P), "COLON", P_typeBounds),
            "ASSIGN", P_typeExpression)

P_genericParameterList(P) ==
  P_consume(P_doWhileMatch(P, P_genericParameter, "COMMA"), "GT",
            "Expected '>' after generic parameters")

P_genericParameters(P) == P_ifMatch(P, "LT", P_genericParameterList)

P_typeConstraint(P) ==
  P_typeBounds(P_consume(P_typeExpression(P), "COLON",
                         "Expected ':' in where clause"))

P_whereClause(P) == P_doWhileMatch(P, P_typeConstraint, "COMMA")

P_parameter(P) ==
  P_ifMatch(
    P_typeExpression(P_consume(P_identifier(P_match(P, "MUT")), "COLON",
                               "Expected ':' after parameter name")),
    "ASSIGN", P_expression)

P_parameters(P) == P_doWhileMatch(P, P_parameter, "COMMA")

P_parameterList(P) == P_unlessCheck(P, "RPAREN", P_parameters)

\* if (check(PURE) || previous().type === PURE) { if (check(PURE))
\* advance(); consume(FN, ...) }
P_pureModifier(P0) ==
  Bind(P0, LAMBDA P :
    IF P_check(P, "PURE")
    THEN P_consume(P_advance(P), "FN", "Expected 'fn' after 'pure'")
    ELSE IF ~Halt(P) /\ P_previous(P).type = "PURE"
    THEN P_consume(P, "FN", "Expected 'fn' after 'pure'")
    ELSE P)

P_functionDeclaration(P) ==
  P_ifCheck(
    P_annotations(
      P_ifMatch(
        P_consume(
          P_parameterList(
            P_consume(P_genericParameters(P_identifier(P_pureModifier(P))),
                      "LPAREN", "Expected '(' after function name")),
          "RPAREN", "Expected ')' after parameters"),
        "ARROW", P_typeExpression)),
    "LBRACE", P_blockStatement)

P_variableDeclaration(P) ==
  P_ifMatch(P_ifMatch(P_identifier(P_match(P, "MUT")), "COLON",
                      P_typeExpression),
            "ASSIGN", P_expression)

P_typeAliasDeclaration(P) ==
  P_typeExpression(P_consume(P_genericParameters(P_identifier(P)), "ASSIGN",
                             "Expected '=' after type name"))

P_structField(P) ==
  P_match(
    P_annotations(
      P_ifMatch(
        P_typeExpression(P_consume(P_identifier(P), "COLON",
                                   "Expected ':' after field name")),
        "ASSIGN", P_expression)),
    "COMMA")

\* if (check(AT)) invariants.push(...annotations()) else { field }
P_structMember(P0) ==
  Bind(P0, LAMBDA P :
    IF P_check(P, "AT") THEN P_annotations(P) ELSE P_structField(P))

P_structDeclaration(P) ==
  P_consume(P_whileInBody(P_consume(P_genericParameters(P_identifier(P)),
                                    "LBRACE",
                                    "Expected '{' after struct name"),
                          P_structMember, "RBRACE"),
            "RBRACE", "Expected '}' after struct body")

P_variantFields(P) ==
  P_consume(P_typesUntil(P, "RPAREN"), "RPAREN",
            "Expected ')' after variant fields")

P_enumVariant(P) ==
  P_match(P_ifMatch(P_identifier(P), "LPAREN", P_variantFields), "COMMA")

P_enumDeclaration(P) ==
  P_consume(P_whileInBody(P_consume(P_genericParameters(P_identifier(P)),
                                    "LBRACE", "Expected '{' after enum name"),
                          P_enumVariant, "RBRACE"),
            "RBRACE", "Expected '}' after enum body")

\* if (match(FN) || check(PURE)) functionDeclaration() else throw
P_method(P0, message) ==
  Bind(P0, LAMBDA P :
    IF P_check(P, "FN") THEN P_functionDeclaration(P_advance(P))
    ELSE IF P_check(P, "PURE") THEN P_functionDeclaration(P)
    ELSE P_error(P, P_peek(P), message))

P_traitMethod(P) == P_method(P, "Expected method declaration in trait")

P_implMethod(P) == P_method(P, "Expected method declaration in impl")

\* if (match(FN)) functionDeclaration() else throw
P_effectMethod(P0) ==
  Bind(P0, LAMBDA P :
    IF P_check(P, "FN") THEN P_functionDeclaration(P_advance(P))
    ELSE P_error(P, P_peek(P), "Expected method declaration in effect"))

P_traitDeclaration(P) ==
  P_consume(
    P_whileInBody(
      P_consume(P_ifMatch(P_genericParameters(P_identifier(P)), "COLON",
                          P_typeBounds),
                "LBRACE", "Expected '{' after trait name"),
      P_traitMethod, "RBRACE"),
    "RBRACE", "Expected '}' after trait body")

P_implDeclaration(P) ==
  P_consume(
    P_whileInBody(
      P_consume(
        P_ifMatch(P_ifMatch(P_typeExpression(P_genericParameters(P)), "FOR",
                            P_typeExpression),
                  "WHERE", P_whereClause),
        "LBRACE", "Expected '{' after impl"),
      P_implMethod, "RBRACE"),
    "RBRACE", "Expected '}' after impl body")

\* while (!check(RBRACE) && !isAtEnd()) annotations.push(...annotations()):
\* annotations() consumes only when the token under the cursor is '@', so on
\* any other token the iteration changes nothing and the loop does not end.
RECURSIVE P_contractBody(_)
P_contractBody(P0) ==
  Bind(P0, LAMBDA P :
    IF P_inBody(P)
    THEN IF P_check(P, "AT") THEN P_contractBody(P_annotations(P))
         ELSE [P EXCEPT !.looping = TRUE]
    ELSE P)

P_contractDeclaration(P) ==
  P_consume(P_contractBody(P_consume(P_genericParameters(P_identifier(P)),
                                     "LBRACE",
                                     "Expected '{' after contract name")),
            "RBRACE", "Expected '}' after contract body")

P_intentDeclaration(P) ==
  P_consume(P_contractBody(P_consume(P_genericParameters(P_identifier(P)),
                                     "LBRACE",
                                     "Expected '{' after intent name")),
            "RBRACE", "Expected '}' after intent body")

P_effectDeclaration(P) ==
  P_consume(P_whileInBody(P_consume(P_genericParameters(P_identifier(P)),
                                    "LBRACE",
                                    "Expected '{' after effect name"),
                          P_effectMethod, "RBRACE"),
            "RBRACE", "Expected '}' after effect body")

P_capabilityField(P) ==
  P_match(
    P_typeExpression(P_consume(P_identifier(P), "COLON",
                               "Expected ':' after capability field name")),
    "COMMA")

P_capabilityDeclaration(P) ==
  P_consume(P_whileInBody(P_consume(P_identifier(P), "LBRACE",
                                    "Expected '{' after capability name"),
                          P_capabilityField, "RBRACE"),
            "RBRACE", "Expected '}' after capability body")

P_importSpecifier(P) == P_ifMatch(P_identifier(P), "AS", P_identifier)

P_importBraces(P) ==
  P_consume(P_doWhileMatch(P, P_importSpecifier, "COMMA"), "RBRACE",
            "Expected '}' after import list")

\* while (match(DOT)) { import list and break, or '*' and break, or a name }
RECURSIVE P_importPath(_)
P_importPathPart(A0) ==
  Bind(A0, LAMBDA A :
    IF P_check(A, "LBRACE") THEN P_importBraces(P_advance(A))
    ELSE IF P_check(A, "STAR") THEN P_advance(A)
    ELSE P_importPath(P_consume(A, "IDENTIFIER", "Expected module name")))

P_importPath(P) == P_ifMatch(P, "DOT", P_importPathPart)

P_importDeclaration(P) ==
  P_importPath(P_consume(P, "IDENTIFIER", "Expected module name"))

P_exportDeclaration(P0) ==
  Bind(P0, LAMBDA P :
    CASE Halt(P) -> P
      [] P_check(P, "FN") -> P_functionDeclaration(P_advance(P))
      [] P_check(P, "PURE") -> P_functionDeclaration(P)
      [] P_check(P, "LET") -> P_variableDeclaration(P_advance(P))
      [] P_check(P, "TYPE") -> P_typeAliasDeclaration(P_advance(P))
      [] P_check(P, "STRUCT") -> P_structDeclaration(P_advance(P))
      [] P_check(P, "ENUM") -> P_enumDeclaration(P_advance(P))
      [] P_check(P, "TRAIT") -> P_traitDeclaration(P_advance(P))
      [] P_check(P, "CONTRACT") -> P_contractDeclaration(P_advance(P))
      [] P_check(P, "INTENT") -> P_intentDeclaration(P_advance(P))
      [] P_check(P, "EFFECT") -> P_effectDeclaration(P_advance(P))
      [] P_check(P, "CAPABILITY") -> P_capabilityDeclaration(P_advance(P))
      [] OTHER -> P_error(P, P_peek(P), "Expected declaration after export"))

\* if (!check(RBRACE) && !isAtEnd()) value = expression()
P_returnStatement(P0) ==
  Bind(P0, LAMBDA P : IF P_inBody(P) THEN P_expression(P) ELSE P)

RECURSIVE P_ifStatement(_)
P_ifStatementElse(A0) ==
  Bind(A0, LAMBDA A :
    IF P_check(A, "IF") THEN P_ifStatement(P_advance(A))
    ELSE P_blockStatement(A))

P_ifStatement(P) ==
  P_ifMatch(P_blockStatement(P_expression(P)), "ELSE", P_ifStatementElse)

P_whileStatement(P) == P_blockStatement(P_annotations(P_expression(P)))

P_forStatement(P) ==
  P_blockStatement(P_annotations(P_expression(
    P_consume(P_identifier(P), "IN", "Expected 'in' after for variable"))))

P_matchStatement(P) ==
  P_consume(P_whileInBody(P_consume(P_expression(P), "LBRACE",
                                    "Expected '{' after match expression"),
                          P_matchArmInList, "RBRACE"),
            "RBRACE", "Expected '}' after match arms")

P_expressionStatement(P) == P_expression(P)

P_statement(P0) ==
  Bind(P0, LAMBDA P :
    CASE Halt(P) -> P
      [] P_check(P, "RETURN") -> P_returnStatement(P_advance(P))
      [] P_check(P, "IF") -> P_ifStatement(P_advance(P))
      [] P_check(P, "WHILE") -> P_whileStatement(P_advance(P))
      [] P_check(P, "FOR") -> P_forStatement(P_advance(P))
      [] P_check(P, "MATCH") -> P_matchStatement(P_advance(P))
      [] P_check(P, "LBRACE") -> P_blockStatement(P)
      [] OTHER -> P_expressionStatement(P))

P_declarationBody(P0) ==
  Bind(P0, LAMBDA P :
    CASE Halt(P) -> P
      [] P_check(P, "EXPORT") -> P_exportDeclaration(P_advance(P))
      [] P_check(P, "IMPORT") -> P_importDeclaration(P_advance(P))
      [] P_check(P, "FN") -> P_functionDeclaration(P_advance(P))
      [] P_check(P, "PURE") -> P_functionDeclaration(P)
      [] P_check(P, "LET") -> P_variableDeclaration(P_advance(P))
      [] P_check(P, "TYPE") -> P_typeAliasDeclaration(P_advance(P))
      [] P_check(P, "STRUCT") -> P_structDeclaration(P_advance(P))
      [] P_check(P, "ENUM") -> P_enumDeclaration(P_advance(P))
      [] P_check(P, "TRAIT") -> P_traitDeclaration(P_advance(P))
      [] P_check(P, "IMPL") -> P_implDeclaration(P_advance(P))
      [] P_check(P, "CONTRACT") -> P_contractDeclaration(P_advance(P))
      [] P_check(P, "INTENT") -> P_intentDeclaration(P_advance(P))
      [] P_check(P, "EFFECT") -> P_effectDeclaration(P_advance(P))
      [] P_check(P, "CAPABILITY") -> P_capabilityDeclaration(P_advance(P))
      [] OTHER -> P_statement(P))

P_blockStatementBody(P) ==
  P_consume(P_whileInBody(P_consume(P, "LBRACE", "Expected '{'"),
                          P_declaration, "RBRACE"),
            "RBRACE", "Expected '}' after block")

P_call(method, P) ==
  CASE method = "typeExpression" -> P_optionalType(P)
    [] method = "expression" -> P_assignment(P)
    [] method = "declaration" -> P_declarationBody(P)
    [] method = "blockStatement" -> P_blockStatementBody(P)
    [] method = "annotations" -> P_annotationsBody(P)
    [] method = "pattern" -> P_patternBody(P)

SynchronizeStops ==
  {"FN", "LET", "STRUCT", "ENUM", "TRAIT", "IMPL", "CONTRACT", "INTENT",
   "EFFECT", "IMPORT", "EXPORT", "IF", "WHILE", "FOR", "RETURN"}

\* The loop of synchronize(), after its first advance().
RECURSIVE P_synchronizeLoop(_)
P_synchronizeLoop(P0) ==
  Bind(P0, LAMBDA P :
    IF ~P_isAtEnd(P)
    THEN IF P_previous(P).type = "SEMICOLON"
            \/ P_peek(P).type \in SynchronizeStops
         THEN P
         ELSE P_synchronizeLoop(P_advance(P))
    ELSE P)

\* synchronize(), entered from the catch of parse(): the exception is over.
P_synchronize(P) == P_synchronizeLoop(P_advance([P EXCEPT !.threw = FALSE]))

(***************************************************************************)
(* parse(): while (!isAtEnd()) try { declaration() } catch { synchronize() }*)
(***************************************************************************)
\* try { declaration() }: it returns, throws into the catch, or stays in
\* the loop of contractBody().
parseDeclaration(P) ==
  Bind(P_declaration(P), LAMBDA Q :
    IF Q.threw THEN [Q EXCEPT !.pc = "synchronize"]
    ELSE IF Q.looping THEN [Q EXCEPT !.pc = "contractBody"]
    ELSE Q)

parseCatch(P) == [P_synchronize(P) EXCEPT !.pc = "parse"]

parseReturn(P) == [P EXCEPT !.pc = "done"]

\* The test of the loop of contractBody(), the parser being inside it.
contractBodyTest(P) == P_inBody([P EXCEPT !.looping = FALSE])

\* The test of the loop of annotations(), called from contractBody().
annotationsTest(P) == P_check([P EXCEPT !.looping = FALSE], "AT")

\* parse(tokens): the parser at its return, or where it stays for ever.
RECURSIVE runParser(_)
runParser(P0) ==
  Bind(P0, LAMBDA P :
    CASE P.pc = "parse" /\ ~P_isAtEnd(P) -> runParser(parseDeclaration(P))
      [] P.pc = "parse" /\ P_isAtEnd(P) -> parseReturn(P)
      [] P.pc = "synchronize" -> runParser(parseCatch(P))
      [] OTHER -> P)

parse(tokens) == runParser(NewParser(tokens))

(***************************************************************************)
(* Token lists given to the parser: what the scanner makes of every text   *)
(* of at most MaxWords lexemes of ParserWords separated by blanks, and of  *)
(* the longer texts of LexExtraSources.                                    *)
(***************************************************************************)
MaxWords == 3
ParserWords ==
  { <<"s", "t", "r", "u", "c", "t">>, <<"e", "n", "u", "m">>,
    <<"t", "r", "a", "i", "t">>, <<"i", "m", "p", "l">>,
    <<"c", "o", "n", "t", "r", "a", "c", "t">>,
    <<"i", "n", "t", "e", "n", "t">>, <<"e", "f", "f", "e", "c", "t">>,
    <<"c", "a", "p", "a", "b", "i", "l", "i", "t", "y">>,
    <<"x">>, <<"{">>, <<"}">>, <<"@">> }

RECURSIVE JoinWords(_)
JoinWords(ws) ==
  IF ws = <<>> THEN <<>>
  ELSE IF Len(ws) = 1 THEN Head(ws)
  ELSE Head(ws) \o <<" ">> \o JoinWords(Tail(ws))

\* kind S { x }, a body that is no body of the kind, for each kind of
\* declaration that has a body in braces.
MalformedBodies ==
  { JoinWords(<<kind, <<"S">>, <<"{">>, <<"x">>, <<"}">>, <<"x">> >>) :
      kind \in ParserWords \ { <<"x">>, <<"{">>, <<"}">>, <<"@">> } }

ParseSources ==
  { JoinWords(ws) : ws \in SeqsUpTo(ParserWords, MaxWords) }
    \cup MalformedBodies
    \cup { s \in LexExtraSources : ~tokenize(s).threw }

(***************************************************************************)
(* An object that has not been constructed, and the null of the program.   *)
(***************************************************************************)
NotCreated == [pc |-> "none"]

Null == [kind |-> "null"]

(***************************************************************************)
(* The analyzer (class SemanticAnalyzer).  A syntax tree is a record with  *)
(* the fields of the node it stands for; names and messages are strings.   *)
(* A type is its kind and its name.  An analyzer object is a record of     *)
(*   program  : the tree given to analyze(),                               *)
(*   types    : the types of the global scope, as name and kind,           *)
(*   symbols  : the symbols of the global scope, as name and the kind and  *)
(*              name of the symbol's type,                                 *)
(*   functions : the function types of the function symbols, and under     *)
(*              the name Effect.method those of the methods of the effect  *)
(*              types,                                                     *)
(*   structs  : the struct types of the global scope, each with its fields *)
(*              and the type variables that are its generic parameters,    *)
(*   typeVarCounter : the counter of the module of createTypeVariable,     *)
(*              which outlives the analyzer: it is 0 when the module is    *)
(*              loaded and an analyzer made later takes over the value the *)
(*              last one left,                                             *)
(*   activeEffects : SymbolTable.activeEffects,                            *)
(*   scopes   : the scopes entered and not exited, the current one last;   *)
(*              the global scope, which is never exited, is symbols/types, *)
(*   scopeLog : the calls of enterScope and exitScope so far, each with    *)
(*              the name of the scope it entered or left,                  *)
(*   inContractContext, currentFunction : the two fields of these names,   *)
(*   typeMap  : the nodes typeMap has a type for, each with its type,      *)
(*   errors, warnings : the two lists of the result,                       *)
(*   type, typeName : the type the last resolveType() or                   *)
(*              analyzeExpression() answered,                              *)
(*   pc, i    : the pass analyze() is in and the statement it is at.       *)
(***************************************************************************)
PrimitiveNames ==
  {"Int", "Int8", "Int16", "Int32", "Int64", "UInt", "Float32", "Float64",
   "Bool", "Char", "String"}

\* new SemanticAnalyzer(): the constructor calls initBuiltinTypes().
NewAnalyzer(program) ==
  [ program |-> program,
    types |-> { [name |-> n, kind |-> "primitive"] : n \in PrimitiveNames }
                \cup { [name |-> "Void", kind |-> "void"],
                       [name |-> "Never", kind |-> "never"] },
    symbols |-> {}, functions |-> {}, structs |-> {}, activeEffects |-> {},
    scopes |-> <<>>, scopeLog |-> <<>>,
    inContractContext |-> FALSE, currentFunction |-> Null,
    typeVarCounter |-> 0, typeMap |-> {},
    errors |-> <<>>, warnings |-> <<>>,
    type |-> "void", typeName |-> "", pc |-> "collect", i |-> 1 ]

\* Scope.lookupType: the kind of the type of that name, or "null".
A_lookupType(A, name) ==
  IF \E t \in A.types : t.name = name
  THEN (CHOOSE t \in A.types : t.name = name).kind
  ELSE "null"

\* SymbolTable.enterScope
enterScope(A, name, kind) ==
  [A EXCEPT !.scopes = Append(@, [name |-> name, kind |-> kind,
                                  symbols |-> {}]),
            !.scopeLog = Append(@, <<"enter", name>>)]

\* SymbolTable.exitScope: the global scope has no parent and stays current.
exitScope(A) ==
  IF A.scopes = <<>>
  THEN [A EXCEPT !.scopeLog = Append(@, <<"exit", "global">>)]
  ELSE [A EXCEPT !.scopes = SubSeq(@, 1, Len(@) - 1),
                 !.scopeLog =
                    Append(@, <<"exit", A.scopes[Len(A.scopes)].name>>)]

\* SymbolTable.lookup: the symbol of that name in the innermost scope that
\* has one, from the current scope outwards, or Null.
A_symbol(A, name) ==
  LET having == { k \in 1..Len(A.scopes) :
                    \E y \in A.scopes[k].symbols : y.name = name }
  IN  IF having # {}
      THEN LET k == CHOOSE k \in having : \A j \in having : j <= k
           IN  CHOOSE y \in A.scopes[k].symbols : y.name = name
      ELSE IF \E y \in A.symbols : y.name = name
      THEN CHOOSE y \in A.symbols : y.name = name
      ELSE Null

\* The kind of the type of the symbol lookup answers, or "null".
A_lookup(A, name) == A_symbol(A, name).kind

\* Scope.defineType: a name already defined keeps its first type.
A_defineType(A, name, kind) ==
  IF \E t \in A.types : t.name = name THEN A
  ELSE [A EXCEPT !.types = @ \cup { [name |-> name, kind |-> kind] }]

\* SymbolTable.define of a symbol whose type has that kind and name, in
\* the current scope: a name already defined there keeps its first symbol.
A_defineSymbol(A, name, kind, typeName) ==
  LET symbol == [name |-> name, kind |-> kind, typeName |-> typeName]
      n == Len(A.scopes)
  IN  IF n = 0
      THEN IF \E y \in A.symbols : y.name = name THEN A
           ELSE [A EXCEPT !.symbols = @ \cup {symbol}]
      ELSE IF \E y \in A.scopes[n].symbols : y.name = name THEN A
           ELSE [A EXCEPT !.scopes[n].symbols = @ \cup {symbol}]

\* Scope.define of the symbol of a declaration, whose type has its name.
A_define(A, name, kind) == A_defineSymbol(A, name, kind, name)

A_error(A, location, message) ==
  [A EXCEPT !.errors = Append(@, [message |-> message, location |-> location,
                                  severity |-> "error"])]

A_warning(A, location, message) ==
  [A EXCEPT !.warnings = Append(@, [message |-> message,
                                    location |-> location,
                                    severity |-> "warning"])]

\* The analyzer after a method that answered that type.
Answer(A, kind, name) == [A EXCEPT !.type = kind, !.typeName = name]

\* The type the last method answered.
TypeOf(A) == [kind |-> A.type, name |-> A.typeName]

resolveType(A, typeExpr) ==
  IF typeExpr.kind = "PrimitiveType"
  THEN IF typeExpr.name \in PrimitiveNames
       THEN Answer(A, "primitive", typeExpr.name)
       ELSE Answer(A, "void", "")
  ELSE LET type == A_lookupType(A, typeExpr.name)
       IN  IF type = "null"
           THEN Answer(A_error(A, typeExpr.location,
                               "Unknown type: " \o typeExpr.name),
                       "unknown", "")
           ELSE Answer(A, type, typeExpr.name)

\* typeExprs.map(t => this.resolveType(t))
RECURSIVE resolveTypes(_, _)
resolveTypes(A, typeExprs) ==
  IF typeExprs = <<>> THEN A
  ELSE resolveTypes(resolveType(A, Head(typeExprs)), Tail(typeExprs))

TypesOf(nodes) == [k \in 1..Len(nodes) |-> nodes[k].type]

\* The loop of createFunctionType over the annotations: the effects of an
\* effect annotation are resolved.
RECURSIVE A_annotationTypes(_, _)
A_annotationTypes(A, annotations) ==
  IF annotations = <<>> THEN A
  ELSE A_annotationTypes(
         IF Head(annotations).kind = "EffectAnnotation"
         THEN resolveTypes(A, Head(annotations).effects)
         ELSE A,
         Tail(annotations))

\* The type expressions of the effect annotations, in order.
RECURSIVE A_effectsOf(_)
A_effectsOf(annotations) ==
  IF annotations = <<>> THEN <<>>
  ELSE (IF Head(annotations).kind = "EffectAnnotation"
        THEN Head(annotations).effects ELSE <<>>)
       \o A_effectsOf(Tail(annotations))

\* The analyzer after createFunctionType: the types of the signature are
\* resolved in the scope as it is when the declaration is collected.
createFunctionType(A, decl) ==
  resolveType(
    A_annotationTypes(resolveTypes(A, TypesOf(decl.parameters)),
                      decl.annotations),
    decl.returnType)

\* The function type createFunctionType returns: of an effect annotation
\* it keeps the effects that resolve to an effect type.
functionType(A, decl) ==
  [ name |-> decl.name,
    parameters |-> [k \in 1..Len(decl.parameters) |->
                      TypeOf(resolveType(A, decl.parameters[k].type))],
    returnType |-> TypeOf(resolveType(A, decl.returnType)),
    effects |-> LET effects == A_effectsOf(decl.annotations)
                    names == [k \in 1..Len(effects) |-> effects[k].name]
                IN  SelectSeq(names,
                              LAMBDA n : A_lookupType(A, n) = "effect"),
    isPure |-> decl.isPure ]

collectFunctionDeclaration(A, decl) ==
  IF A_lookup(A, decl.name) # "null"
  THEN createFunctionType(A, decl)
  ELSE [A_define(createFunctionType(A, decl), decl.name, "function")
          EXCEPT !.functions = @ \cup { functionType(A, decl) }]

\* createTypeVariable(name, bounds), when the counter has that value: the
\* type variable it returns.
createTypeVariable(typeVarCounter, name) ==
  [kind |-> "typevar", name |-> name, id |-> typeVarCounter]

\* decl.genericParams.map(p => createTypeVariable(...)): the analyzer after
\* it, the bounds resolved and the counter advanced once for each.
RECURSIVE A_genericParams(_, _)
A_genericParams(A, genericParams) ==
  IF genericParams = <<>> THEN A
  ELSE A_genericParams(
         [resolveTypes(A, Head(genericParams).bounds)
            EXCEPT !.typeVarCounter = @ + 1],
         Tail(genericParams))

\* The struct type is reachable from the result if one of the two
\* definitions took place.
collectStructDeclaration(A, decl) ==
  LET B == resolveTypes(A_genericParams(A, decl.genericParams),
                        TypesOf(decl.fields))
      structType ==
        [ name |-> decl.name,
          fields |-> [k \in 1..Len(decl.fields) |->
                        [name |-> decl.fields[k].name,
                         type |-> TypeOf(resolveType(A, decl.fields[k].type))]],
          genericParams |->
            [k \in 1..Len(decl.genericParams) |->
               createTypeVariable(A.typeVarCounter + k - 1,
                                  decl.genericParams[k].name)] ]
      C == A_define(A_defineType(B, decl.name, "struct"), decl.name, "struct")
  IN  IF A_lookupType(A, decl.name) = "null" \/ A_lookup(A, decl.name) = "null"
      THEN [C EXCEPT !.structs = @ \cup { structType }]
      ELSE C

\* The loop of collectEffectDeclaration over the methods.
RECURSIVE A_methodTypes(_, _)
A_methodTypes(A, methods) ==
  IF methods = <<>> THEN A
  ELSE A_methodTypes(createFunctionType(A, Head(methods)), Tail(methods))

\* Of two methods of one name the map of the effect type keeps the last.
\* The effect type is reachable from the result if one of the two
\* definitions took place.
collectEffectDeclaration(A, decl) ==
  LET B == A_methodTypes(A_genericParams(A, decl.genericParams),
                         decl.methods)
      C == A_define(A_defineType(B, decl.name, "effect"), decl.name, "effect")
      kept == { k \in 1..Len(decl.methods) :
                  \A j \in (k + 1)..Len(decl.methods) :
                    decl.methods[j].name # decl.methods[k].name }
      methods == { [functionType(A, decl.methods[k])
                      EXCEPT !.name = decl.name \o "." \o @] : k \in kept }
  IN  IF A_lookupType(A, decl.name) = "null" \/ A_lookup(A, decl.name) = "null"
      THEN [C EXCEPT !.functions = @ \cup methods]
      ELSE C

collectDeclaration(A, stmt) ==
  CASE stmt.kind = "FunctionDeclaration" -> collectFunctionDeclaration(A, stmt)
    [] stmt.kind = "StructDeclaration" -> collectStructDeclaration(A, stmt)
    [] stmt.kind = "EffectDeclaration" -> collectEffectDeclaration(A, stmt)
    [] OTHER -> A

isBoolean(type) == type.kind = "primitive" /\ type.name = "Bool"

analyzeIdentifier(A, expr) ==
  IF expr.name = "result" /\ A.inContractContext /\ A.currentFunction # Null
  THEN resolveType(A, A.currentFunction.returnType)
  ELSE LET symbol == A_symbol(A, expr.name)
       IN  IF symbol = Null
           THEN Answer(A_error(A, expr.location,
                               "Undefined identifier: " \o expr.name),
                       "unknown", "")
           ELSE Answer(A, symbol.kind, symbol.typeName)

analyzeLiteral(A, expr) ==
  CASE expr.literalKind = "integer" -> Answer(A, "primitive", "Int")
    [] expr.literalKind = "float" -> Answer(A, "primitive", "Float64")
    [] expr.literalKind = "string" -> Answer(A, "primitive", "String")
    [] expr.literalKind = "char" -> Answer(A, "primitive", "Char")
    [] expr.literalKind = "boolean" -> Answer(A, "primitive", "Bool")
    [] expr.literalKind = "nil" -> Answer(A, "void", "")
    [] OTHER -> Answer(A, "unknown", "")

IntegerNames == {"Int", "Int8", "Int16", "Int32", "Int64", "UInt"}

FloatNames == {"Float32", "Float64"}

isInteger(type) == type.kind = "primitive" /\ type.name \in IntegerNames

isFloat(type) == type.kind = "primitive" /\ type.name \in FloatNames

isNumeric(type) == isInteger(type) \/ isFloat(type)

getNumericSize(type) ==
  CASE type.kind # "primitive" -> 0
    [] type.name = "Int8" -> 8
    [] type.name = "Int16" -> 16
    [] type.name \in {"Int32", "Float32"} -> 32
    [] type.name \in {"Int64", "Float64", "Int", "UInt"} -> 64
    [] OTHER -> 0

\* typeEquals, of the primitive, void, never, unknown, error, optional,
\* reference and struct types; the structs of the model are of one module.
RECURSIVE typeEquals(_, _)
typeEquals(a, b) ==
  IF a.kind # b.kind THEN FALSE
  ELSE CASE a.kind \in {"primitive", "struct"} -> a.name = b.name
         [] a.kind \in {"void", "never", "unknown"} -> TRUE
         [] a.kind = "error" -> a.message = b.message
         [] a.kind = "optional" -> typeEquals(a.inner, b.inner)
         [] a.kind = "reference" ->
              a.isMutable = b.isMutable /\ typeEquals(a.inner, b.inner)
         [] OTHER -> FALSE

RECURSIVE isAssignableTo(_, _)
isAssignableTo(source, target) ==
  CASE source.kind = "never" -> TRUE
    [] target.kind = "unknown" -> TRUE
    [] source.kind = "error" \/ target.kind = "error" -> TRUE
    [] typeEquals(source, target) -> TRUE
    [] target.kind = "optional" -> isAssignableTo(source, target.inner)
    [] source.kind = "reference" /\ target.kind = "reference" ->
         IF ~target.isMutable /\ source.isMutable
         THEN isAssignableTo(source.inner, target.inner)
         ELSE /\ source.isMutable = target.isMutable
              /\ isAssignableTo(source.inner, target.inner)
    [] isNumeric(source) /\ isNumeric(target) ->
         CASE isInteger(source) /\ isInteger(target) ->
                getNumericSize(source) <= getNumericSize(target)
           [] isFloat(source) /\ isFloat(target) ->
                getNumericSize(source) <= getNumericSize(target)
           [] isInteger(source) /\ isFloat(target) -> TRUE
           [] OTHER -> FALSE
    [] OTHER -> FALSE

\* typeToString, of a type by its kind and name.
typeToString(kind, name) ==
  CASE kind \in {"primitive", "struct"} -> name
    [] kind = "void" -> "Void"
    [] kind = "never" -> "Never"
    [] kind = "effect" -> "effect " \o name
    [] OTHER -> "unknown"

\* widenNumericTypes, of two numeric types.
widenNumericTypes(a, b) ==
  IF isFloat(a) \/ isFloat(b)
  THEN [kind |-> "primitive",
        name |-> IF "Float64" \in {a.name, b.name}
                 THEN "Float64" ELSE "Float32"]
  ELSE IF getNumericSize(a) >= getNumericSize(b) THEN a ELSE b

ArithmeticOperators == {"+", "-", "*", "/", "%", "**"}

\* The loop of analyzeCallExpression over the effects of the callee.
RECURSIVE A_effectRequirements(_, _, _)
A_effectRequirements(A, expr, effects) ==
  IF effects = <<>> THEN A
  ELSE A_effectRequirements(
         IF Head(effects) \notin A.activeEffects
         THEN A_error(A, expr.location,
                      "Function requires effect " \o Head(effects)
                        \o " which is not declared in current context")
         ELSE A,
         expr, Tail(effects))

RECURSIVE analyzeExpression(_, _)

RECURSIVE analyzeStatement(_, _)

\* The analyzer after error(location, what + " must be Bool, got " + type)
\* when the type the last method answered is not Bool.
A_mustBeBool(A, location, what) ==
  IF isBoolean(TypeOf(A)) THEN A
  ELSE A_error(A, location,
               what \o " must be Bool, got " \o typeToString(A.type, A.typeName))

\* analyzeBinaryExpression, of the arithmetic, equality, comparison and
\* logical operators.
analyzeBinaryExpression(A, expr) ==
  LET L == analyzeExpression(A, expr.left)
      R == analyzeExpression(L, expr.right)
      leftType == TypeOf(L)
      rightType == TypeOf(R)
      types == typeToString(leftType.kind, leftType.name) \o " and "
                 \o typeToString(rightType.kind, rightType.name)
  IN  CASE expr.operator \in ArithmeticOperators ->
             IF ~isNumeric(leftType) \/ ~isNumeric(rightType)
             THEN Answer(
                    A_error(R, expr.location,
                            "Arithmetic operators require numeric types, got "
                              \o types),
                    "unknown", "")
             ELSE LET type == widenNumericTypes(leftType, rightType)
                  IN  Answer(R, type.kind, type.name)
        [] expr.operator \in {"==", "!="} ->
             Answer(IF /\ ~isAssignableTo(leftType, rightType)
                       /\ ~isAssignableTo(rightType, leftType)
                    THEN A_error(R, expr.location,
                                 "Cannot compare "
                                   \o typeToString(leftType.kind,
                                                   leftType.name)
                                   \o " with "
                                   \o typeToString(rightType.kind,
                                                   rightType.name))
                    ELSE R,
                    "primitive", "Bool")
        [] expr.operator \in {"<", ">", "<=", ">="} ->
             Answer(IF ~isNumeric(leftType) \/ ~isNumeric(rightType)
                    THEN A_error(R, expr.location,
                                 "Comparison operators require numeric types, got "
                                   \o types)
                    ELSE R,
                    "primitive", "Bool")
        [] expr.operator \in {"&&", "||"} ->
             Answer(IF ~isBoolean(leftType) \/ ~isBoolean(rightType)
                    THEN A_error(R, expr.location,
                                 "Logical operators require Bool types, got "
                                   \o types)
                    ELSE R,
                    "primitive", "Bool")
        [] OTHER -> Answer(R, "unknown", "")

\* The loop of analyzeCallExpression over the arguments.
RECURSIVE A_arguments(_, _, _)
A_arguments(A, arguments, parameters) ==
  IF arguments = <<>> \/ parameters = <<>> THEN A
  ELSE LET B == analyzeExpression(A, Head(arguments))
           argType == TypeOf(B)
           paramType == Head(parameters)
       IN  A_arguments(
             IF ~isAssignableTo(argType, paramType)
             THEN A_error(B, Head(arguments).location,
                          "Argument type mismatch: expected "
                            \o typeToString(paramType.kind, paramType.name)
                            \o ", got "
                            \o typeToString(argType.kind, argType.name))
             ELSE B,
             Tail(arguments), Tail(parameters))

analyzeCallExpression(A, expr) ==
  LET C == analyzeExpression(A, expr.callee)
      calleeType == TypeOf(C)
  IN  IF calleeType.kind # "function"
      THEN IF calleeType.kind \in {"struct", "enum"} THEN C
           ELSE Answer(
                  A_error(C, expr.location,
                          "Cannot call non-function type "
                            \o typeToString(calleeType.kind, calleeType.name)),
                  "unknown", "")
      ELSE LET callee == CHOOSE f \in C.functions : f.name = calleeType.name
               D == IF Len(expr.arguments) # Len(callee.parameters)
                    THEN A_error(C, expr.location,
                                 "Expected " \o ToString(Len(callee.parameters))
                                   \o " arguments, got "
                                   \o ToString(Len(expr.arguments)))
                    ELSE C
               E == A_arguments(D, expr.arguments, callee.parameters)
               F == IF callee.effects # <<>>
                    THEN A_effectRequirements(E, expr, callee.effects)
                    ELSE E
           IN  Answer(F, callee.returnType.kind, callee.returnType.name)

\* analyzeMemberExpression, without the reference types, which the
\* programs of the model do not have.
analyzeMemberExpression(A, expr) ==
  LET O == analyzeExpression(A, expr.object)
      objectType == TypeOf(O)
      method == objectType.name \o "." \o expr.property
  IN  CASE objectType.kind = "effect" ->
             IF \E f \in O.functions : f.name = method
             THEN Answer(O, "function", method)
             ELSE Answer(A_error(O, expr.location,
                                 "Effect " \o objectType.name
                                   \o " has no method " \o expr.property),
                         "unknown", "")
        [] objectType.kind = "struct" ->
             LET struct == CHOOSE t \in O.structs : t.name = objectType.name
                 found == { k \in 1..Len(struct.fields) :
                              struct.fields[k].name = expr.property }
             IN  IF found # {}
                 THEN LET type == struct.fields[CHOOSE k \in found :
                                                  \A j \in found : j <= k].type
                      IN  Answer(O, type.kind, type.name)
                 ELSE Answer(A_error(O, expr.location,
                                     "Struct " \o objectType.name
                                       \o " has no field " \o expr.property),
                             "unknown", "")
        [] OTHER ->
             Answer(A_error(O, expr.location,
                            "Cannot access member " \o expr.property \o " on "
                              \o typeToString(objectType.kind,
                                              objectType.name)),
                    "unknown", "")

\* The loop over the statements of a block.
RECURSIVE A_statements(_, _)
A_statements(A, statements) ==
  IF statements = <<>> THEN A
  ELSE A_statements(analyzeStatement(A, Head(statements)), Tail(statements))

\* analyzeBlockStatement: a block is the sequence of its statements.
analyzeBlockStatement(A, statements) ==
  LET B == A_statements(Answer(enterScope(A, "block", "block"), "void", ""),
                        statements)
  IN  Answer(exitScope(B), B.type, B.typeName)

analyzeBlockExpression(A, expr) ==
  LET B == A_statements(enterScope(A, "block", "block"), expr.statements)
      C == IF expr.expression # Null
           THEN analyzeExpression(B, expr.expression)
           ELSE Answer(B, "void", "")
  IN  Answer(exitScope(C), C.type, C.typeName)

\* The loop over the parameters of a function or of a lambda, which
\* defines each in the current scope.
RECURSIVE A_parameters(_, _)
A_parameters(A, parameters) ==
  IF parameters = <<>> THEN A
  ELSE LET R == resolveType(A, Head(parameters).type)
       IN  A_parameters(A_defineSymbol(R, Head(parameters).name,
                                       R.type, R.typeName),
                        Tail(parameters))

\* analyzeLambdaExpression: the function type it answers has no name.
analyzeLambdaExpression(A, expr) ==
  LET B == A_parameters(enterScope(A, "lambda", "function"), expr.parameters)
      C == analyzeExpression(B, expr.body)
  IN  Answer(exitScope(C), "function", "")

analyzeOldExpression(A, expr) ==
  IF ~A.inContractContext
  THEN Answer(A_error(A, expr.location,
                      "old() can only be used in contract annotations"),
              "unknown", "")
  ELSE analyzeExpression(A, expr.expression)

\* The loop of analyzeForallExpression, of analyzeExistsExpression, over the
\* bindings: no range of the model's programs is an array, so every binding
\* is an Int.
RECURSIVE A_bindings(_, _)
A_bindings(A, bindings) ==
  IF bindings = <<>> THEN A
  ELSE LET B == IF Head(bindings).range # Null
                THEN analyzeExpression(A, Head(bindings).range)
                ELSE A
       IN  A_bindings(A_defineSymbol(B, Head(bindings).name,
                                     "primitive", "Int"),
                      Tail(bindings))

\* analyzeForallExpression and analyzeExistsExpression, which differ in the
\* word ("forall", "exists") only.
A_quantifier(A, expr, word) ==
  LET B == IF ~A.inContractContext
           THEN A_error(A, expr.location,
                        word \o " can only be used in contract annotations")
           ELSE A
      C == A_bindings(enterScope(B, word, "block"), expr.bindings)
      D == A_mustBeBool(analyzeExpression(C, expr.condition),
                        expr.condition.location, word \o " condition")
  IN  Answer(exitScope(D), "primitive", "Bool")

analyzeForallExpression(A, expr) == A_quantifier(A, expr, "forall")

analyzeExistsExpression(A, expr) == A_quantifier(A, expr, "exists")

\* typeMap.set(expr, type)
A_typeMapSet(A, expr, type) ==
  [A EXCEPT !.typeMap = { entry \in @ : entry.node # expr }
                          \cup { [node |-> expr, type |-> type] }]

analyzeExpression(A, expr) ==
  LET T == CASE expr.kind = "Identifier" -> analyzeIdentifier(A, expr)
             [] expr.kind = "MemberExpression" ->
                  analyzeMemberExpression(A, expr)
             [] expr.kind = "Literal" -> analyzeLiteral(A, expr)
             [] expr.kind = "BinaryExpression" ->
                  analyzeBinaryExpression(A, expr)
             [] expr.kind = "CallExpression" -> analyzeCallExpression(A, expr)
             [] expr.kind = "BlockExpression" ->
                  analyzeBlockExpression(A, expr)
             [] expr.kind = "LambdaExpression" ->
                  analyzeLambdaExpression(A, expr)
             [] expr.kind = "OldExpression" -> analyzeOldExpression(A, expr)
             [] expr.kind = "ForallExpression" ->
                  analyzeForallExpression(A, expr)
             [] expr.kind = "ExistsExpression" ->
                  analyzeExistsExpression(A, expr)
             [] OTHER -> Answer(A, "unknown", "")
  IN  A_typeMapSet(T, expr, TypeOf(T))

\* case 'EffectAnnotation' of analyzeAnnotation
RECURSIVE A_effectAnnotation(_, _, _)
A_effectAnnotation(A, ann, effects) ==
  IF effects = <<>> THEN A
  ELSE LET B == resolveType(A, Head(effects))
       IN  A_effectAnnotation(
             IF B.type # "effect"
             THEN A_warning(B, ann.location,
                            typeToString(B.type, Head(effects).name)
                              \o " is not an effect type")
             ELSE B,
             ann, Tail(effects))

\* analyzeAnnotation, of the requires, ensures, invariant and effect
\* annotations.
analyzeAnnotation(A, ann) ==
  CASE ann.kind = "RequiresAnnotation" ->
         A_mustBeBool(analyzeExpression(A, ann.condition), ann.location,
                      "Requires condition")
    [] ann.kind = "EnsuresAnnotation" ->
         A_mustBeBool(analyzeExpression(A, ann.condition), ann.location,
                      "Ensures condition")
    [] ann.kind = "InvariantAnnotation" ->
         A_mustBeBool(analyzeExpression(A, ann.condition), ann.location,
                      "Invariant")
    [] ann.kind = "EffectAnnotation" ->
         A_effectAnnotation(A, ann, ann.effects)
    [] OTHER -> A

RECURSIVE A_annotations(_, _)
A_annotations(A, annotations) ==
  IF annotations = <<>> THEN A
  ELSE A_annotations(analyzeAnnotation(A, Head(annotations)),
                     Tail(annotations))

\* The loop over the invariants of a loop or of a struct; what is "Loop
\* invariant" or "Invariant".
RECURSIVE A_invariants(_, _, _)
A_invariants(A, invariants, what) ==
  IF invariants = <<>> THEN A
  ELSE A_invariants(
         IF Head(invariants).kind = "InvariantAnnotation"
         THEN A_mustBeBool(analyzeExpression(A, Head(invariants).condition),
                           Head(invariants).location, what)
         ELSE A,
         Tail(invariants), what)

\* this.inContractContext = true; the loop over the invariants;
\* this.inContractContext = false
A_contractInvariants(A, invariants, what) ==
  [A_invariants([A EXCEPT !.inContractContext = TRUE], invariants, what)
     EXCEPT !.inContractContext = FALSE]

analyzeWhileStatement(A, stmt) ==
  LET C == A_mustBeBool(analyzeExpression(A, stmt.condition),
                        stmt.condition.location, "Condition")
      I == A_contractInvariants(C, stmt.invariants, "Loop invariant")
      B == analyzeBlockStatement(enterScope(I, "while", "loop"), stmt.body)
  IN  Answer(exitScope(B), "void", "")

\* analyzeForStatement: no iterable of the model's programs is an array, so
\* the element type is unknown.
analyzeForStatement(A, stmt) ==
  LET C == analyzeExpression(A, stmt.iterable)
      D == A_defineSymbol(enterScope(C, "for", "loop"), stmt.variable.name,
                          "unknown", "")
      I == A_contractInvariants(D, stmt.invariants, "Loop invariant")
      B == analyzeBlockStatement(I, stmt.body)
  IN  Answer(exitScope(B), "void", "")

\* analyzePattern, of the wildcard, literal, identifier and tuple patterns:
\* no subject of the model's programs has a tuple type, so a tuple pattern
\* takes the first early return.
analyzePattern(A, pattern, expectedType) ==
  CASE pattern.kind = "WildcardPattern" -> A
    [] pattern.kind = "LiteralPattern" ->
         LET litType == TypeOf(analyzeLiteral(A, pattern.value))
         IN  IF ~isAssignableTo(litType, expectedType)
             THEN A_error(A, pattern.location,
                          "Pattern type mismatch: expected "
                            \o typeToString(expectedType.kind,
                                            expectedType.name)
                            \o ", got "
                            \o typeToString(litType.kind, litType.name))
             ELSE A
    [] pattern.kind = "IdentifierPattern" ->
         A_defineSymbol(A, pattern.name, expectedType.kind, expectedType.name)
    [] pattern.kind = "TuplePattern" /\ expectedType.kind # "tuple" ->
         A_error(A, pattern.location, "Expected tuple type for tuple pattern")
    [] OTHER -> A

\* A variant of analyzeMatchArm that returns when the pattern check has
\* reported an error, the scope of the arm still open.
analyzeMatchArmEarlyReturn(A, arm, subjectType) ==
  LET P == analyzePattern(enterScope(A, "match-arm", "block"), arm.pattern,
                          subjectType)
      G == IF arm.guard # Null
           THEN A_mustBeBool(analyzeExpression(P, arm.guard),
                             arm.guard.location, "Match guard")
           ELSE P
      B == analyzeExpression(G, arm.body)
  IN  IF Len(P.errors) > Len(A.errors) THEN Answer(P, "unknown", "")
      ELSE Answer(exitScope(B), B.type, B.typeName)

analyzeMatchArm(A, arm, subjectType) ==
  LET P == analyzePattern(enterScope(A, "match-arm", "block"), arm.pattern,
                          subjectType)
      G == IF arm.guard # Null
           THEN A_mustBeBool(analyzeExpression(P, arm.guard),
                             arm.guard.location, "Match guard")
           ELSE P
      B == analyzeExpression(G, arm.body)
  IN  Answer(exitScope(B), B.type, B.typeName)

\* The loop of analyzeMatchStatement over the arms.
RECURSIVE A_arms(_, _, _)
A_arms(A, arms, subjectType) ==
  IF arms = <<>> THEN A
  ELSE A_arms(analyzeMatchArm(A, Head(arms), subjectType), Tail(arms),
              subjectType)

analyzeMatchStatement(A, stmt) ==
  LET S == analyzeExpression(A, stmt.subject)
  IN  Answer(A_arms(S, stmt.arms, TypeOf(S)), "void", "")

\* The names analyzeFunctionDeclaration hands to setEffects.
declaredEffects(decl) ==
  LET effects == A_effectsOf(decl.annotations)
  IN  { effects[k].name :
          k \in { j \in 1..Len(effects) : effects[j].kind = "NamedType" } }

\* analyzeFunctionDeclaration, of the functions without generic parameters;
\* the body is the sequence of the statements of its block.
analyzeFunctionDeclaration(A, decl) ==
  IF A_lookup(A, decl.name) # "function" THEN Answer(A, "void", "")
  ELSE LET B == enterScope([A EXCEPT !.currentFunction = decl],
                           decl.name, "function")
           C == A_parameters(B, decl.parameters)
           D == [C EXCEPT !.activeEffects = declaredEffects(decl),
                          !.inContractContext = TRUE]
           E == [A_annotations(D, decl.annotations)
                   EXCEPT !.inContractContext = FALSE]
           F == exitScope(analyzeBlockStatement(E, decl.body))
       IN  Answer([F EXCEPT !.activeEffects = {}, !.currentFunction = Null],
                  "function", decl.name)

analyzeVariableDeclaration(A, decl) ==
  LET V == IF decl.type # Null THEN resolveType(A, decl.type)
           ELSE Answer(A, "unknown", "")
      declared == TypeOf(V)
      I == IF decl.initializer # Null
           THEN analyzeExpression(V, decl.initializer)
           ELSE V
      initType == TypeOf(I)
      varType == IF decl.initializer # Null /\ declared.kind = "unknown"
                 THEN initType ELSE declared
      E == CASE decl.initializer # Null /\ declared.kind # "unknown"
                  /\ ~isAssignableTo(initType, declared) ->
                  A_error(I, decl.location,
                          "Cannot assign "
                            \o typeToString(initType.kind, initType.name)
                            \o " to "
                            \o typeToString(declared.kind, declared.name))
             [] decl.initializer = Null /\ declared.kind = "unknown" ->
                  A_error(I, decl.location,
                          "Cannot infer type without initializer")
             [] OTHER -> I
  IN  Answer(A_defineSymbol(E, decl.name, varType.kind, varType.name),
             varType.kind, varType.name)

analyzeStructDeclaration(A, decl) ==
  IF A_lookupType(A, decl.name) # "struct" THEN Answer(A, "void", "")
  ELSE Answer(A_contractInvariants(A, decl.invariants, "Invariant"),
              "struct", decl.name)

analyzeStatement(A, stmt) ==
  CASE stmt.kind = "ExpressionStatement" ->
         analyzeExpression(A, stmt.expression)
    [] stmt.kind = "WhileStatement" -> analyzeWhileStatement(A, stmt)
    [] stmt.kind = "ForStatement" -> analyzeForStatement(A, stmt)
    [] stmt.kind = "MatchStatement" -> analyzeMatchStatement(A, stmt)
    [] stmt.kind = "BlockStatement" ->
         analyzeBlockStatement(A, stmt.statements)
    [] stmt.kind = "FunctionDeclaration" -> analyzeFunctionDeclaration(A, stmt)
    [] stmt.kind = "VariableDeclaration" ->
         analyzeVariableDeclaration(A, stmt)
    [] stmt.kind = "StructDeclaration" -> analyzeStructDeclaration(A, stmt)
    [] OTHER -> Answer(A, "void", "")

\* One iteration of the loop of collectDeclarations, of analyzeProgram.
collectStep(A) ==
  [collectDeclaration(A, A.program[A.i]) EXCEPT !.i = @ + 1]

analyzeStep(A) ==
  [analyzeStatement(A, A.program[A.i]) EXCEPT !.i = @ + 1]

\* analyze(program): the analyzer at the return.
RECURSIVE runAnalyzer(_)
runAnalyzer(A) ==
  CASE A.pc = "collect" /\ A.i <= Len(A.program) -> runAnalyzer(collectStep(A))
    [] A.pc = "collect" /\ A.i > Len(A.program) ->
         runAnalyzer([A EXCEPT !.pc = "analyze", !.i = 1])
    [] A.pc = "analyze" /\ A.i <= Len(A.program) -> runAnalyzer(analyzeStep(A))
    [] A.pc = "analyze" /\ A.i > Len(A.program) -> [A EXCEPT !.pc = "done"]
    [] OTHER -> A

analyze(program) == runAnalyzer(NewAnalyzer(program))

(***************************************************************************)
(* Syntax trees given to the analyzer: the trees the parser builds for     *)
(* programs of at most MaxDecls declarations, one on a line, each of one   *)
(* of the forms                                                            *)
(*   fn f() { y }              fn g(x: Foo) { x }                          *)
(*   fn h() @effect[Foo] { }   struct Foo { a: Int }                       *)
(*   struct Bar { a: Foo }     effect Foo { }                              *)
(* and, for the analyzer alone, of the forms                               *)
(*   fn c() { h() }            fn d() @effect[Foo] { h() }                 *)
(*   h()                       pure fn p() @effect[Foo] { }                *)
(*   let x: Int = y            y + 1                                       *)
(*   fn q(a: Int, a: Int) { }  effect Foo { fn m() }                       *)
(*   fn cm() { Foo.m() }       fn dm() @effect[Foo] { Foo.m() }            *)
(*   Foo.m()                   f(1)                                        *)
(*   Foo(1)                                                                *)
(* and, where one compilation follows another, of the form                 *)
(*   struct Box<T> { a: Int }                                              *)
(***************************************************************************)
MaxDecls == 3

Loc(line, column) == [line |-> line, column |-> column]

NamedType(name, line, column) ==
  [kind |-> "NamedType", name |-> name, location |-> Loc(line, column)]

PrimitiveType(name, line, column) ==
  [kind |-> "PrimitiveType", name |-> name, location |-> Loc(line, column)]

IdentifierStatement(name, line, column) ==
  [kind |-> "ExpressionStatement",
   expression |-> [kind |-> "Identifier", name |-> name,
                   location |-> Loc(line, column)],
   location |-> Loc(line, column)]

FunctionDeclaration(name, parameters, annotations, body, line) ==
  [kind |-> "FunctionDeclaration", name |-> name, parameters |-> parameters,
   returnType |-> PrimitiveType("Void", line, 1), isPure |-> FALSE,
   annotations |-> annotations, body |-> body, location |-> Loc(line, 1)]

\* The call name() at that place.
CallStatement(name, line, column) ==
  [kind |-> "ExpressionStatement",
   expression |-> [kind |-> "CallExpression",
                   callee |-> [kind |-> "Identifier", name |-> name,
                               location |-> Loc(line, column)],
                   arguments |-> <<>>, location |-> Loc(line, column)],
   location |-> Loc(line, column)]

\* The call object.property() at that place.
MemberCallStatement(object, property, line, column) ==
  [kind |-> "ExpressionStatement",
   expression |-> [kind |-> "CallExpression",
                   callee |-> [kind |-> "MemberExpression",
                               object |-> [kind |-> "Identifier",
                                           name |-> object,
                                           location |-> Loc(line, column)],
                               property |-> property,
                               location |-> Loc(line, column)],
                   arguments |-> <<>>, location |-> Loc(line, column)],
   location |-> Loc(line, column)]

EffectAnnotation(name, line, column) ==
  [kind |-> "EffectAnnotation",
   effects |-> <<NamedType(name, line, column + 8)>>,
   location |-> Loc(line, column)]

DeclForms == {"f", "g", "h", "Foo", "Bar", "effect"}

DeclOn(form, line) ==
  CASE form = "f" ->
         FunctionDeclaration("f", <<>>, <<>>,
                             <<IdentifierStatement("y", line, 10)>>, line)
    [] form = "g" ->
         FunctionDeclaration(
           "g",
           <<[name |-> "x", type |-> NamedType("Foo", line, 9),
              location |-> Loc(line, 6)]>>,
           <<>>, <<IdentifierStatement("x", line, 16)>>, line)
    [] form = "h" ->
         FunctionDeclaration(
           "h", <<>>,
           <<[kind |-> "EffectAnnotation",
              effects |-> <<NamedType("Foo", line, 16)>>,
              location |-> Loc(line, 8)]>>,
           <<>>, line)
    [] form = "Foo" ->
         [kind |-> "StructDeclaration", name |-> "Foo",
          genericParams |-> <<>>, invariants |-> <<>>,
          fields |-> <<[name |-> "a", type |-> PrimitiveType("Int", line, 17),
                        location |-> Loc(line, 14)]>>,
          location |-> Loc(line, 1)]
    [] form = "Bar" ->
         [kind |-> "StructDeclaration", name |-> "Bar",
          genericParams |-> <<>>, invariants |-> <<>>,
          fields |-> <<[name |-> "a", type |-> NamedType("Foo", line, 17),
                        location |-> Loc(line, 14)]>>,
          location |-> Loc(line, 1)]
    [] form = "effect" ->
         [kind |-> "EffectDeclaration", name |-> "Foo",
          genericParams |-> <<>>, methods |-> <<>>,
          location |-> Loc(line, 1)]
    [] form = "eff" ->
         [kind |-> "EffectDeclaration", name |-> "Foo",
          genericParams |-> <<>>,
          methods |-> <<[FunctionDeclaration("m", <<>>, <<>>, <<>>, line)
                           EXCEPT !.location = Loc(line, 14)]>>,
          location |-> Loc(line, 1)]
    [] form = "cm" ->
         FunctionDeclaration("cm", <<>>, <<>>,
                             <<MemberCallStatement("Foo", "m", line, 11)>>,
                             line)
    [] form = "dm" ->
         FunctionDeclaration("dm", <<>>, <<EffectAnnotation("Foo", line, 9)>>,
                             <<MemberCallStatement("Foo", "m", line, 24)>>,
                             line)
    [] form = "topm" -> MemberCallStatement("Foo", "m", line, 1)
    [] form = "Box" ->
         [kind |-> "StructDeclaration", name |-> "Box",
          genericParams |-> <<[name |-> "T", bounds |-> <<>>,
                               location |-> Loc(line, 12)]>>,
          fields |-> <<[name |-> "a", type |-> PrimitiveType("Int", line, 20),
                        location |-> Loc(line, 17)]>>,
          invariants |-> <<>>,
          location |-> Loc(line, 1)]
    [] form = "c" ->
         FunctionDeclaration("c", <<>>, <<>>,
                             <<CallStatement("h", line, 10)>>, line)
    [] form = "d" ->
         FunctionDeclaration("d", <<>>, <<EffectAnnotation("Foo", line, 8)>>,
                             <<CallStatement("h", line, 23)>>, line)
    [] form = "top" -> CallStatement("h", line, 1)
    [] form = "p" ->
         [FunctionDeclaration("p", <<>>,
                              <<EffectAnnotation("Foo", line, 13)>>,
                              <<>>, line)
            EXCEPT !.isPure = TRUE]
    [] form = "q" ->
         FunctionDeclaration(
           "q",
           <<[name |-> "a", type |-> PrimitiveType("Int", line, 9),
              location |-> Loc(line, 6)],
             [name |-> "a", type |-> PrimitiveType("Int", line, 17),
              location |-> Loc(line, 14)]>>,
           <<>>, <<>>, line)
    [] form = "let" ->
         [kind |-> "VariableDeclaration", name |-> "x",
          type |-> PrimitiveType("Int", line, 8),
          initializer |-> [kind |-> "Identifier", name |-> "y",
                           location |-> Loc(line, 14)],
          location |-> Loc(line, 1)]
    [] form = "fx" ->
         [CallStatement("f", line, 1)
            EXCEPT !.expression.arguments =
                     <<[kind |-> "Literal", literalKind |-> "integer",
                        value |-> 1, location |-> Loc(line, 3)]>>]
    [] form = "new" ->
         [CallStatement("Foo", line, 1)
            EXCEPT !.expression.arguments =
                     <<[kind |-> "Literal", literalKind |-> "integer",
                        value |-> 1, location |-> Loc(line, 5)]>>]
    [] form = "sum" ->
         [kind |-> "ExpressionStatement",
          expression |-> [kind |-> "BinaryExpression", operator |-> "+",
                          left |-> [kind |-> "Identifier", name |-> "y",
                                    location |-> Loc(line, 1)],
                          right |-> [kind |-> "Literal",
                                     literalKind |-> "integer", value |-> 1,
                                     location |-> Loc(line, 5)],
                          location |-> Loc(line, 1)],
          location |-> Loc(line, 1)]

ProgramOf(forms) == [k \in 1..Len(forms) |-> DeclOn(forms[k], k)]

AnalyzerForms ==
  DeclForms \cup {"c", "d", "top", "p", "let", "sum", "q",
                  "eff", "cm", "dm", "topm", "fx", "new"}

AnalyzerPrograms ==
  { ProgramOf(forms) : forms \in SeqsUpTo(AnalyzerForms, MaxDecls) }

(***************************************************************************)
(* The lowerer (class JavaScriptGenerator).  Text is a sequence of pieces, *)
(* each piece a string that is a name, a literal, an operator or a         *)
(* punctuation mark, so that the characters the lowerer replaces are       *)
(* pieces of their own.  An emitted line is a record of what the line does *)
(* (op), the name it binds and the text of its expression.  A generator    *)
(* object is a record of                                                   *)
(*   options         : runtimeContracts,                                   *)
(*   output          : the lines emitted,                                  *)
(*   currentFunction : the function being lowered, or Null,                *)
(*   program         : the tree given to generate(),                       *)
(*   pc, i           : where generateFunctionDeclaration() is.             *)
(***************************************************************************)
Line(op, name, code) == [op |-> op, name |-> name, code |-> code]

emit(G, line) == [G EXCEPT !.output = Append(@, line)]

RECURSIVE emitAll(_, _)
emitAll(G, lines) ==
  IF lines = <<>> THEN G ELSE emitAll(emit(G, Head(lines)), Tail(lines))

\* texts.join(separator)
RECURSIVE JoinCode(_, _)
JoinCode(texts, separator) ==
  IF texts = <<>> THEN <<>>
  ELSE IF Len(texts) = 1 THEN Head(texts)
  ELSE Head(texts) \o <<separator>> \o JoinCode(Tail(texts), separator)

RECURSIVE exprToString(_)
exprToString(expr) ==
  CASE expr.kind = "Identifier" -> <<expr.name>>
    [] expr.kind = "Literal" -> <<ToString(expr.value)>>
    [] expr.kind = "MemberExpression" ->
         exprToString(expr.object) \o <<".", expr.property>>
    [] expr.kind = "BinaryExpression" ->
         exprToString(expr.left) \o <<" ", expr.operator, " ">>
           \o exprToString(expr.right)
    [] OTHER -> <<"<expr>">>

\* text.replace(/[.\[\]]/g, '_')
replaceBrackets(text) ==
  [k \in 1..Len(text) |-> IF text[k] \in {".", "[", "]"} THEN "_" ELSE text[k]]

\* text.replace(/\bresult\b/g, resultVar)
replaceResult(text, resultVar) ==
  [k \in 1..Len(text) |-> IF text[k] = "result" THEN resultVar ELSE text[k]]

generateOldExpression(expr) ==
  "__old_" \o Join(replaceBrackets(exprToString(expr.expression)))

\* generateLiteral, for the integers and the strings without a character
\* that JSON.stringify escapes.
generateLiteral(expr) ==
  CASE expr.literalKind \in {"integer", "float"} -> <<ToString(expr.value)>>
    [] expr.literalKind \in {"string", "char"} ->
         <<"\"" \o expr.value \o "\"">>
    [] expr.literalKind = "boolean" ->
         <<IF expr.value THEN "true" ELSE "false">>
    [] OTHER -> <<"null">>

\* generatePatternCheck, of the wildcard, literal and identifier patterns;
\* the value of a literal pattern is the Literal literalFromToken() builds,
\* written by JSON.stringify.
generatePatternCheck(pattern, subject) ==
  CASE pattern.kind = "WildcardPattern" -> <<"true">>
    [] pattern.kind = "LiteralPattern" ->
         <<subject, " === ">> \o generateLiteral(pattern.value)
    [] pattern.kind = "IdentifierPattern" -> <<"true">>
    [] OTHER -> <<"true">>

\* generatePatternBindings, of the same patterns: the declaration, or
\* nothing in place of null.
generatePatternBindings(pattern, subject) ==
  CASE pattern.kind = "IdentifierPattern" ->
         <<"const ", pattern.name.name, " = ", subject, ";">>
    [] OTHER -> <<>>

RECURSIVE generateExpression(_)
generateExpression(expr) ==
  LET each(exprs) == [k \in 1..Len(exprs) |-> generateExpression(exprs[k])]
  IN
  CASE expr.kind = "Identifier" -> <<expr.name>>
    [] expr.kind = "Literal" -> generateLiteral(expr)
    [] expr.kind = "BinaryExpression" ->
         IF expr.operator = "**"
         THEN <<"Math.pow", "(">> \o generateExpression(expr.left)
                \o <<", ">> \o generateExpression(expr.right) \o <<")">>
         ELSE <<"(">> \o generateExpression(expr.left)
                \o <<" ", expr.operator, " ">>
                \o generateExpression(expr.right) \o <<")">>
    [] expr.kind = "UnaryExpression" ->
         IF expr.operator \in {"&", "*"} THEN generateExpression(expr.operand)
         ELSE <<expr.operator>> \o generateExpression(expr.operand)
    [] expr.kind = "CallExpression" ->
         generateExpression(expr.callee) \o <<"(">>
           \o JoinCode(each(expr.arguments), ", ") \o <<")">>
    [] expr.kind = "MemberExpression" ->
         generateExpression(expr.object) \o <<".", expr.property>>
    [] expr.kind = "IndexExpression" ->
         generateExpression(expr.object) \o <<"[">>
           \o generateExpression(expr.index) \o <<"]">>
    [] expr.kind \in {"ArrayExpression", "TupleExpression"} ->
         <<"[">> \o JoinCode(each(expr.elements), ", ") \o <<"]">>
    [] expr.kind = "OldExpression" -> <<generateOldExpression(expr)>>
    [] expr.kind = "ForallExpression" ->
         IF Len(expr.bindings) = 1 /\ expr.bindings[1].range # Null
         THEN generateExpression(expr.bindings[1].range)
                \o <<".", "every", "(", expr.bindings[1].name, " => ">>
                \o generateExpression(expr.condition) \o <<")">>
         ELSE <<"/* forall */ true">>
    [] expr.kind = "TryExpression" ->   \* generateTryExpression
         <<"__intent.unwrap", "(">> \o generateExpression(expr.expression)
           \o <<")">>
    [] expr.kind = "StructExpression" ->   \* generateStructExpression
         IF expr.spread # Null
         THEN <<"{ ...">> \o generateExpression(expr.spread) \o <<", ">>
                \o JoinCode([k \in 1..Len(expr.fields) |->
                               <<expr.fields[k].name, ": ">>
                                 \o generateExpression(expr.fields[k].value)],
                            ", ")
                \o <<" }">>
         ELSE <<"new ", expr.type, "(">>
                \o JoinCode([k \in 1..Len(expr.fields) |->
                               generateExpression(expr.fields[k].value)],
                            ", ")
                \o <<")">>
    [] expr.kind = "IfExpression" ->   \* generateIfExpression
         <<"(">> \o generateExpression(expr.condition) \o <<" ? ">>
           \o generateExpression(expr.thenBranch) \o <<" : ">>
           \o (IF expr.elseBranch # Null
               THEN generateExpression(expr.elseBranch)
               ELSE <<"undefined">>)
           \o <<")">>
    [] expr.kind = "BlockExpression" ->   \* generateBlockExpression
         IF expr.statements = <<>> /\ expr.expression # Null
         THEN generateExpression(expr.expression)
         ELSE <<"(() => { ">>
                \o JoinCode([k \in 1..Len(expr.statements) |->
                               generateExpression(
                                 expr.statements[k].expression) \o <<";">>],
                            " ")
                \o (IF expr.expression # Null
                    THEN <<" return ">>
                           \o generateExpression(expr.expression)
                           \o <<"; })()">>
                    ELSE <<" })()">>)
    [] expr.kind = "MatchExpression" ->   \* generateMatchExpression
         <<"((__m) => { ">>
           \o JoinCode(
                [k \in 1..Len(expr.arms) |->
                   <<"if (">>
                     \o generatePatternCheck(expr.arms[k].pattern, "__m")
                     \o (IF expr.arms[k].guard # Null
                         THEN <<" && ">>
                                \o generateExpression(expr.arms[k].guard)
                         ELSE <<>>)
                     \o <<") { ">>
                     \o generatePatternBindings(expr.arms[k].pattern, "__m")
                     \o <<" return ">>
                     \o generateExpression(expr.arms[k].body)
                     \o <<"; }">>],
                " ")
           \o <<" throw new Error(\"Match not exhaustive\"); })(">>
           \o generateExpression(expr.subject) \o <<")">>
    [] expr.kind = "AssignmentExpression" ->
         generateExpression(expr.left) \o <<" ", expr.operator, " ">>
           \o generateExpression(expr.right)
    [] OTHER -> <<"/* unsupported expression */">>

\* The nodes traverseExpression gives to its visitor, in the order of the
\* visits.
RECURSIVE traverseExpression(_)
traverseExpression(expr) ==
  LET RECURSIVE all(_)
      all(exprs) ==
        IF exprs = <<>> THEN <<>>
        ELSE traverseExpression(Head(exprs)) \o all(Tail(exprs))
  IN
  <<expr>> \o
  CASE expr.kind = "BinaryExpression" ->
         traverseExpression(expr.left) \o traverseExpression(expr.right)
    [] expr.kind = "UnaryExpression" -> traverseExpression(expr.operand)
    [] expr.kind = "CallExpression" ->
         traverseExpression(expr.callee) \o all(expr.arguments)
    [] expr.kind = "MemberExpression" -> traverseExpression(expr.object)
    [] expr.kind = "IndexExpression" ->
         traverseExpression(expr.object) \o traverseExpression(expr.index)
    [] expr.kind = "OldExpression" -> traverseExpression(expr.expression)
    [] OTHER -> <<>>

\* Map.set(name, expr): a key that is there keeps its place and takes the
\* new value.
MapSet(map, name, expr) ==
  IF \E k \in 1..Len(map) : map[k].name = name
  THEN [k \in 1..Len(map) |->
          IF map[k].name = name THEN [name |-> name, expr |-> expr]
          ELSE map[k]]
  ELSE Append(map, [name |-> name, expr |-> expr])

\* findOld over the nodes visited
RECURSIVE findOld(_, _)
findOld(map, nodes) ==
  IF nodes = <<>> THEN map
  ELSE findOld(
         IF Head(nodes).kind = "OldExpression"
         THEN MapSet(map, generateOldExpression(Head(nodes)),
                     Head(nodes).expression)
         ELSE map,
         Tail(nodes))

Conditions(decl, kind) ==
  LET anns == SelectSeq(decl.annotations, LAMBDA a : a.kind = kind)
  IN  [k \in 1..Len(anns) |-> anns[k].condition]

getRequiresAnnotations(decl) == Conditions(decl, "RequiresAnnotation")

getEnsuresAnnotations(decl) == Conditions(decl, "EnsuresAnnotation")

RECURSIVE collectOldIn(_, _)
collectOldIn(map, conditions) ==
  IF conditions = <<>> THEN map
  ELSE collectOldIn(findOld(map, traverseExpression(Head(conditions))),
                    Tail(conditions))

collectOldExpressions(decl) == collectOldIn(<<>>, getEnsuresAnnotations(decl))

generateReturnStatement(G, stmt) ==
  LET ensures == IF G.currentFunction # Null /\ G.options.runtimeContracts
                 THEN getEnsuresAnnotations(G.currentFunction)
                 ELSE <<>>
  IN  IF ensures # <<>> /\ stmt.value # Null
      THEN emit(
             emitAll(
               emit(G, Line("result", "__result",
                            generateExpression(stmt.value))),
               [k \in 1..Len(ensures) |->
                  Line("ensures", "",
                       replaceResult(generateExpression(ensures[k]),
                                     "__result"))]),
             Line("return", "", <<"__result">>))
      ELSE IF stmt.value # Null
      THEN emit(G, Line("return", "", generateExpression(stmt.value)))
      ELSE emit(G, Line("return", "", <<>>))

\* The part of generateFunctionDeclaration before the body.
generateFunctionHead(G0, decl) ==
  LET G == emit([G0 EXCEPT !.currentFunction = decl],
                Line("function", decl.name,
                     [k \in 1..Len(decl.parameters) |->
                        decl.parameters[k].name]))
      requires == getRequiresAnnotations(decl)
      oldExprs == collectOldExpressions(decl)
  IN  IF G.options.runtimeContracts
      THEN emitAll(
             emitAll(G, [k \in 1..Len(requires) |->
                           Line("requires", "",
                                generateExpression(requires[k]))]),
             [k \in 1..Len(oldExprs) |->
                Line("snapshot", oldExprs[k].name,
                     generateExpression(oldExprs[k].expr))])
      ELSE G

\* The part of generateFunctionDeclaration after the body.
generateFunctionEnd(G) ==
  [emit(G, Line("close", "", <<>>)) EXCEPT !.currentFunction = Null]

RECURSIVE generateStatements(_, _)

generateFunctionDeclaration(G, decl) ==
  generateFunctionEnd(
    generateStatements(generateFunctionHead(G, decl), decl.body))

\* The lines of one arm of generateMatchStatement: the last arm, when its
\* pattern is the wildcard, is the default case.
generateMatchArm(G, arm, isLast) ==
  LET subjectVar == "__match_subject"
      patternCheck == generatePatternCheck(arm.pattern, subjectVar)
      bindings == generatePatternBindings(arm.pattern, subjectVar)
      bound == IF bindings # <<>> THEN <<Line("bind", "", bindings)>>
               ELSE <<>>
      body == Line("return", "", generateExpression(arm.body))
  IN  IF isLast /\ arm.pattern.kind = "WildcardPattern"
      THEN emitAll(G, bound \o <<body>>)
      ELSE LET condition ==
                 IF arm.guard # Null
                 THEN patternCheck \o <<" && (">>
                        \o generateExpression(arm.guard) \o <<")">>
                 ELSE patternCheck
           IN  emitAll(G, <<Line("if", "", condition)>> \o bound
                            \o <<body, Line("close", "", <<>>)>>)

RECURSIVE generateMatchArms(_, _, _)
generateMatchArms(G, arms, i) ==
  IF i > Len(arms) THEN G
  ELSE generateMatchArms(generateMatchArm(G, arms[i], i = Len(arms)),
                         arms, i + 1)

generateMatchStatement(G, stmt) ==
  emitAll(
    generateMatchArms(
      emitAll(G, <<Line("const", "__match_subject",
                        generateExpression(stmt.subject)),
                   Line("open", "", <<"(() => {">>)>>),
      stmt.arms, 1),
    <<Line("throw", "", <<"new Error(\"Match not exhaustive\")">>),
      Line("close", "", <<"})();">>)>>)

generateStatement(G, stmt) ==
  CASE stmt.kind = "ExpressionStatement" ->
         emit(G, Line("statement", "", generateExpression(stmt.expression)))
    [] stmt.kind = "MatchStatement" -> generateMatchStatement(G, stmt)
    [] stmt.kind = "ReturnStatement" -> generateReturnStatement(G, stmt)
    [] stmt.kind = "FunctionDeclaration" ->
         generateFunctionDeclaration(G, stmt)
    [] stmt.kind = "StructDeclaration" ->
         emit(G, Line("class", stmt.name,
                      [k \in 1..Len(stmt.fields) |-> stmt.fields[k].name]))
    [] stmt.kind = "EffectDeclaration" ->
         emit(G, Line("const", stmt.name, <<>>))
    [] OTHER -> G

generateStatements(G, statements) ==
  IF statements = <<>> THEN G
  ELSE generateStatements(generateStatement(G, Head(statements)),
                          Tail(statements))

NewGenerator(runtimeContracts) ==
  [ options |-> [runtimeContracts |-> runtimeContracts],
    output |-> <<>>, currentFunction |-> Null, program |-> <<>>,
    pc |-> "generate", i |-> 1 ]

\* generate(program): what it returns, the lines in place of their join.
RECURSIVE generateProgram(_, _)
generateProgram(G, statements) ==
  IF statements = <<>> THEN G
  ELSE generateProgram(
         emit(generateStatement(G, Head(statements)), Line("", "", <<>>)),
         Tail(statements))

generate(G, program) ==
  generateProgram(
    IF G.options.runtimeContracts
    THEN emit(G, Line("helpers", "__intent", <<>>)) ELSE G,
    program).output

(***************************************************************************)
(* Functions given to the lowerer: fn inc(x) with one requires clause, at  *)
(* most MaxEnsures ensures clauses of EnsuresClauses and a body of at most *)
(* MaxBody statements of BodyStatements.                                   *)
(***************************************************************************)
MaxEnsures == 2
MaxBody == 2

Identifier(name) == [kind |-> "Identifier", name |-> name]

Literal(value) ==
  [kind |-> "Literal", literalKind |-> "integer", value |-> value]

BinaryExpression(left, operator, right) ==
  [kind |-> "BinaryExpression", operator |-> operator, left |-> left,
   right |-> right]

IndexExpression(object, index) ==
  [kind |-> "IndexExpression", object |-> object, index |-> index]

OldExpression(expression) ==
  [kind |-> "OldExpression", expression |-> expression]

EnsuresClauses ==
  { \* x == old(x) + 1
    BinaryExpression(Identifier("x"), "==",
                     BinaryExpression(OldExpression(Identifier("x")), "+",
                                      Literal(1))),
    \* result == old(x)
    BinaryExpression(Identifier("result"), "==",
                     OldExpression(Identifier("x"))),
    \* f(old(p.x))
    [kind |-> "CallExpression", callee |-> Identifier("f"),
     arguments |-> <<OldExpression([kind |-> "MemberExpression",
                                    object |-> Identifier("p"),
                                    property |-> "x"])>>],
    \* forall i in xs: old(x) == i
    [kind |-> "ForallExpression",
     bindings |-> <<[name |-> "i", range |-> Identifier("xs")]>>,
     condition |-> BinaryExpression(OldExpression(Identifier("x")), "==",
                                    Identifier("i"))],
    \* [old(x)] == [x]
    BinaryExpression([kind |-> "ArrayExpression",
                      elements |-> <<OldExpression(Identifier("x"))>>],
                     "==",
                     [kind |-> "ArrayExpression",
                      elements |-> <<Identifier("x")>>]),
    \* old(a[0]) == a[1]
    BinaryExpression(OldExpression(IndexExpression(Identifier("a"),
                                                   Literal(0))),
                     "==", IndexExpression(Identifier("a"), Literal(1))),
    \* old(b[0]) == x
    BinaryExpression(OldExpression(IndexExpression(Identifier("b"),
                                                   Literal(0))),
                     "==", Identifier("x")) }

BodyStatements ==
  { \* x += 2
    [kind |-> "ExpressionStatement",
     expression |-> [kind |-> "AssignmentExpression", operator |-> "+=",
                     left |-> Identifier("x"), right |-> Literal(2)]],
    \* return x
    [kind |-> "ReturnStatement", value |-> Identifier("x")],
    \* return
    [kind |-> "ReturnStatement", value |-> Null],
    \* parse("x")?
    [kind |-> "ExpressionStatement",
     expression |->
       [kind |-> "TryExpression",
        expression |->
          [kind |-> "CallExpression", callee |-> Identifier("parse"),
           arguments |-> <<[kind |-> "Literal", literalKind |-> "string",
                            value |-> "x"]>>]]] }

GenFunction(ensures, body) ==
  [kind |-> "FunctionDeclaration", name |-> "inc",
   parameters |-> <<[name |-> "x"]>>,
   annotations |->
     <<[kind |-> "RequiresAnnotation",
        condition |-> BinaryExpression(Identifier("x"), ">", Literal(0))]>>
       \o [k \in 1..Len(ensures) |->
             [kind |-> "EnsuresAnnotation", condition |-> ensures[k]]],
   body |-> body]

GenFunctions ==
  { GenFunction(ensures, body) :
      ensures \in SeqsUpTo(EnsuresClauses, MaxEnsures),
      body \in SeqsUpTo(BodyStatements, MaxBody) }

(***************************************************************************)
(* GenSpec: one generator over each program of one function, generate()    *)
(* and generateFunctionDeclaration() running one part at a step.           *)
(***************************************************************************)
VerifyLevels == {"full", "runtime", "trusted"}

\* The options of a Compiler that the model follows.
CompilerOptions(stopOnFirstError, runtimeContracts, verifyLevel) ==
  [stopOnFirstError |-> stopOnFirstError,
   runtimeContracts |-> runtimeContracts, verifyLevel |-> verifyLevel]

\* The options compile() hands to generateJavaScript.
generatorOptions(options) == [runtimeContracts |-> options.runtimeContracts]

\* The generator is the one compile() makes, of a Compiler with any
\* runtimeContracts and verifyLevel, at its generation phase.
GenInit ==
  /\ \E runtimeContracts \in BOOLEAN, verifyLevel \in VerifyLevels :
       comp = [ pc |-> "generate",
                options |-> CompilerOptions(FALSE, runtimeContracts,
                                            verifyLevel) ]
  /\ \E decl \in GenFunctions :
       gen = [ NewGenerator(generatorOptions(comp.options).runtimeContracts)
                 EXCEPT !.program = <<decl>> ]
  /\ lexer = NotCreated
  /\ parser = NotCreated
  /\ analyzer = NotCreated
  /\ js = NotCreated
  /\ typing = NotCreated

\* generate(): the helpers, then the loop over the statements.
GenStart ==
  /\ gen.pc = "generate"
  /\ gen' = [ (IF gen.options.runtimeContracts
               THEN emit(gen, Line("helpers", "__intent", <<>>))
               ELSE gen)
              EXCEPT !.pc = "function" ]
  /\ UNCHANGED <<typing, js, lexer, parser, analyzer, comp>>

GenFunctionHead ==
  /\ gen.pc = "function"
  /\ gen' = [ generateFunctionHead(gen, gen.program[1])
              EXCEPT !.pc = "body", !.i = 1 ]
  /\ UNCHANGED <<typing, js, lexer, parser, analyzer, comp>>

GenBodyStatement ==
  /\ gen.pc = "body"
  /\ gen.i <= Len(gen.currentFunction.body)
  /\ gen' = [ generateStatement(gen, gen.currentFunction.body[gen.i])
              EXCEPT !.i = @ + 1 ]
  /\ UNCHANGED <<typing, js, lexer, parser, analyzer, comp>>

GenFunctionEnd ==
  /\ gen.pc = "body"
  /\ gen.i > Len(gen.currentFunction.body)
  /\ gen' = [ emit(generateFunctionEnd(gen), Line("", "", <<>>))
              EXCEPT !.pc = "done" ]
  /\ UNCHANGED <<typing, js, lexer, parser, analyzer, comp>>

GenNext ==
  \/ GenStart
  \/ GenFunctionHead
  \/ GenBodyStatement
  \/ GenFunctionEnd

GenSpec == GenInit /\ [][GenNext]_vars

(***************************************************************************)
(* class Compiler.  A compilation is a record of                           *)
(*   source, options  : the arguments of compile() and of the constructor, *)
(*   errors, warnings : the two lists compile() accumulates,               *)
(*   tokens, ast, analysisResult : what the stages returned, each <<>>     *)
(*                      until its stage has returned,                      *)
(*   result           : <<>>, or the value compile() returned,             *)
(*   ran              : the stages compile() has called so far,            *)
(*   pc               : the stage compile() calls next, "catch" for its    *)
(*                      catch block, "returned", or "threw" when an        *)
(*                      exception left compile().                          *)
(* The stage objects are the variables lexer, parser, analyzer and gen.    *)
(***************************************************************************)
Undefined == <<>>

Some(value) == <<value>>

NewCompilation(source, program, stopOnFirstError, generatorThrows) ==
  [ source |-> source, program |-> program,
    options |-> CompilerOptions(stopOnFirstError, TRUE, "runtime"),
    generatorThrows |-> generatorThrows,
    errors |-> <<>>, warnings |-> <<>>,
    tokens |-> Undefined, ast |-> Undefined, analysisResult |-> Undefined,
    result |-> Undefined, ran |-> <<>>, pc |-> "lexer" ]

\* A variant of pushErrors that puts the errors of the stage in front of
\* the list.
pushErrorsInFront(errors, phase, stageErrors) ==
  [k \in 1..Len(stageErrors) |->
     [phase |-> phase, message |-> stageErrors[k].message,
      line |-> stageErrors[k].line,
      column |-> stageErrors[k].column, severity |-> "error"]] \o errors

\* The loops that push the errors of the lexer and of the parser.
pushErrors(errors, phase, stageErrors) ==
  errors \o [k \in 1..Len(stageErrors) |->
               [phase |-> phase, message |-> stageErrors[k].message,
                line |-> stageErrors[k].line,
                column |-> stageErrors[k].column, severity |-> "error"]]

\* The loops that push the errors and the warnings of the analyzer.
pushAnalyzerErrors(errors, stageErrors) ==
  errors \o [k \in 1..Len(stageErrors) |->
               [phase |-> "analyzer", message |-> stageErrors[k].message,
                line |-> stageErrors[k].location.line,
                column |-> stageErrors[k].location.column,
                severity |-> stageErrors[k].severity]]

pushAnalyzerWarnings(warnings, stageWarnings) ==
  warnings \o [k \in 1..Len(stageWarnings) |->
                 [phase |-> "analyzer", message |-> stageWarnings[k].message,
                  line |-> stageWarnings[k].location.line,
                  column |-> stageWarnings[k].location.column,
                  severity |-> "warning"]]

\* return { success: false, errors, warnings, tokens, ast, analysisResult }
\* with the fields there are at that return.
returnFailure(C) ==
  [C EXCEPT !.pc = "returned",
            !.result = Some([success |-> FALSE, output |-> Undefined,
                             errors |-> C.errors, warnings |-> C.warnings,
                             tokens |-> C.tokens, ast |-> C.ast,
                             analysisResult |-> C.analysisResult])]

\* The early return after a stage, or the way on to the next stage.
stopOrGoOn(C, next) ==
  IF C.options.stopOnFirstError /\ Len(C.errors) > 0
  THEN returnFailure(C)
  ELSE [C EXCEPT !.pc = next]

\* Phase 1, the lexer having returned L.
compileLexer(C, L) ==
  stopOrGoOn([C EXCEPT !.errors = pushErrors(@, "lexer", L.errors),
                       !.tokens = Some(L.tokens)],
             "parser")

\* Phase 2, the parser having returned P and the tree.
compileParser(C, P, program) ==
  stopOrGoOn([C EXCEPT !.errors = pushErrors(@, "parser", P.errors),
                       !.ast = Some(program)],
             "analyzer")

\* Phase 3, the analyzer having returned A.
compileAnalyzer(C, A) ==
  stopOrGoOn(
    [C EXCEPT !.errors = pushAnalyzerErrors(@, A.errors),
              !.warnings = pushAnalyzerWarnings(@, A.warnings),
              !.analysisResult = Some([errors |-> A.errors,
                                       warnings |-> A.warnings])],
    "codegen")

\* A variant of compileGenerate that reports success whatever the errors.
compileGenerateSucceeds(C, output) ==
  [C EXCEPT !.pc = "returned",
            !.result = Some([success |-> TRUE,
                             output |-> Some(output),
                             errors |-> C.errors, warnings |-> C.warnings,
                             tokens |-> C.tokens, ast |-> C.ast,
                             analysisResult |-> C.analysisResult])]

\* Phase 4, the generator having returned the text.
compileGenerate(C, output) ==
  [C EXCEPT !.pc = "returned",
            !.result = Some([success |-> Len(C.errors) = 0,
                             output |-> Some(output),
                             errors |-> C.errors, warnings |-> C.warnings,
                             tokens |-> C.tokens, ast |-> C.ast,
                             analysisResult |-> C.analysisResult])]

\* A variant of compileCatch that pushes no diagnostic.
compileCatchSilent(C, message) == returnFailure(C)

\* The catch block of phase 4.
compileCatch(C, message) ==
  returnFailure(
    [C EXCEPT !.errors = Append(@, [phase |-> "codegen", message |-> message,
                                    line |-> 0, column |-> 0,
                                    severity |-> "error"])])

(***************************************************************************)
(* Source texts given to compile(): at most MaxCompileDecls declarations   *)
(* of DeclForms, one on a line, and a last line of LastLines; with each    *)
(* text the tree its declarations make (the last lines add no node).       *)
(***************************************************************************)
MaxCompileDecls == 2

DeclText(form) ==
  CASE form = "f" ->
         <<"f", "n", " ", "f", "(", ")", " ", "{", " ", "y", " ", "}">>
    [] form = "g" ->
         <<"f", "n", " ", "g", "(", "x", ":", " ", "F", "o", "o", ")",
           " ", "{", " ", "x", " ", "}">>
    [] form = "h" ->
         <<"f", "n", " ", "h", "(", ")", " ", "@", "e", "f", "f", "e",
           "c", "t", "[", "F", "o", "o", "]", " ", "{", " ", "}">>
    [] form = "Foo" ->
         <<"s", "t", "r", "u", "c", "t", " ", "F", "o", "o", " ", "{",
           " ", "a", ":", " ", "I", "n", "t", " ", "}">>
    [] form = "Bar" ->
         <<"s", "t", "r", "u", "c", "t", " ", "B", "a", "r", " ", "{",
           " ", "a", ":", " ", "F", "o", "o", " ", "}">>
    [] form = "effect" ->
         <<"e", "f", "f", "e", "c", "t", " ", "F", "o", "o", " ", "{",
           " ", "}">>

LastLines == {"none", "character", "fn", "both", "escape", "contract"}

LastLineText(form) ==
  CASE form = "none" ->
         <<>>
    [] form = "character" ->
         <<"$">>
    [] form = "fn" ->
         <<"f", "n">>
    [] form = "both" ->
         <<"$", " ", "f", "n">>
    [] form = "escape" ->
         <<"\"", "\\", "u", "{", "}", "\"">>
    [] form = "contract" ->
         <<"c", "o", "n", "t", "r", "a", "c", "t", " ", "C", " ", "{",
           " ", "x", " ", "}">>

RECURSIVE SourceLines(_)
SourceLines(forms) ==
  IF forms = <<>> THEN <<>>
  ELSE DeclText(Head(forms)) \o <<"\n">> \o SourceLines(Tail(forms))

SourceOf(forms, last) == SourceLines(forms) \o LastLineText(last)

Compilations ==
  { NewCompilation(SourceOf(forms, last), ProgramOf(forms), stop, throws) :
      forms \in SeqsUpTo(DeclForms, MaxCompileDecls), last \in LastLines,
      stop \in BOOLEAN, throws \in BOOLEAN }

(***************************************************************************)
(* AnalyzeSpec: one analyzer over each tree, analyze() running one         *)
(* statement of one pass at a step.                                        *)
(***************************************************************************)
AnalyzeInit ==
  /\ analyzer \in { NewAnalyzer(program) : program \in AnalyzerPrograms }
  /\ lexer = NotCreated
  /\ parser = NotCreated
  /\ gen = NotCreated
  /\ comp = NotCreated
  /\ js = NotCreated
  /\ typing = NotCreated

AnalyzeCollect ==
  /\ analyzer.pc = "collect"
  /\ analyzer.i <= Len(analyzer.program)
  /\ analyzer' = collectStep(analyzer)
  /\ UNCHANGED <<typing, js, lexer, parser, gen, comp>>

AnalyzeSecondPass ==
  /\ analyzer.pc = "collect"
  /\ analyzer.i > Len(analyzer.program)
  /\ analyzer' = [analyzer EXCEPT !.pc = "analyze", !.i = 1]
  /\ UNCHANGED <<typing, js, lexer, parser, gen, comp>>

AnalyzeStatement ==
  /\ analyzer.pc = "analyze"
  /\ analyzer.i <= Len(analyzer.program)
  /\ analyzer' = analyzeStep(analyzer)
  /\ UNCHANGED <<typing, js, lexer, parser, gen, comp>>

AnalyzeReturn ==
  /\ analyzer.pc = "analyze"
  /\ analyzer.i > Len(analyzer.program)
  /\ analyzer' = [analyzer EXCEPT !.pc = "done"]
  /\ UNCHANGED <<typing, js, lexer, parser, gen, comp>>

AnalyzeNext ==
  \/ AnalyzeCollect
  \/ AnalyzeSecondPass
  \/ AnalyzeStatement
  \/ AnalyzeReturn

AnalyzeSpec == AnalyzeInit /\ [][AnalyzeNext]_vars

(***************************************************************************)
(* LexSpec: one Lexer over each source text, tokenize() running one        *)
(* iteration of its loop at a step.  A lexer that threw takes no more      *)
(* steps: nothing in the class catches.                                    *)
(***************************************************************************)
LexInit ==
  /\ lexer \in { NewLexer(s) : s \in LexSources }
  /\ parser = NotCreated
  /\ analyzer = NotCreated
  /\ gen = NotCreated
  /\ comp = NotCreated
  /\ js = NotCreated
  /\ typing = NotCreated

LexRunning == lexer # NotCreated /\ ~lexer.threw /\ ~lexer.done

LexScan ==
  /\ LexRunning
  /\ ~isAtEnd(lexer)
  /\ lexer' = tokenizeStep(lexer)
  /\ UNCHANGED <<typing, js, parser, analyzer, gen, comp>>

LexEnd ==
  /\ LexRunning
  /\ isAtEnd(lexer)
  /\ lexer' = tokenizeEnd(lexer)
  /\ UNCHANGED <<typing, js, parser, analyzer, gen, comp>>

LexNext == LexScan \/ LexEnd

LexSpec == LexInit /\ [][LexNext]_vars

(***************************************************************************)
(* ParseSpec: one Parser over the tokens of each source text, parse()      *)
(* running one declaration, one recovery or one loop test at a step.  The  *)
(* program is sequential and runs to completion, so a step that can be     *)
(* taken is taken: ParseFairSpec.                                          *)
(***************************************************************************)
ParseInit ==
  /\ \E s \in ParseSources :
       /\ lexer = tokenize(s)
       /\ parser = NewParser(tokenize(s).tokens)
  /\ analyzer = NotCreated
  /\ gen = NotCreated
  /\ comp = NotCreated
  /\ js = NotCreated
  /\ typing = NotCreated

ParseDeclaration ==
  /\ parser.pc = "parse"
  /\ ~P_isAtEnd(parser)
  /\ parser' = parseDeclaration(parser)
  /\ UNCHANGED <<typing, js, lexer, analyzer, gen, comp>>

ParseCatch ==
  /\ parser.pc = "synchronize"
  /\ parser' = parseCatch(parser)
  /\ UNCHANGED <<typing, js, lexer, analyzer, gen, comp>>

ParseReturn ==
  /\ parser.pc = "parse"
  /\ P_isAtEnd(parser)
  /\ parser' = parseReturn(parser)
  /\ UNCHANGED <<typing, js, lexer, analyzer, gen, comp>>

\* contractBody(): the loop test holds, annotations() is called.
ContractBodyLoop ==
  /\ parser.pc = "contractBody"
  /\ contractBodyTest(parser)
  /\ parser' = [parser EXCEPT !.pc = "annotations"]
  /\ UNCHANGED <<typing, js, lexer, analyzer, gen, comp>>

\* annotations(): its loop test fails, it returns the empty list.
AnnotationsReturn ==
  /\ parser.pc = "annotations"
  /\ ~annotationsTest(parser)
  /\ parser' = [parser EXCEPT !.pc = "contractBody"]
  /\ UNCHANGED <<typing, js, lexer, analyzer, gen, comp>>

ParseNext ==
  \/ ParseDeclaration
  \/ ParseCatch
  \/ ParseReturn
  \/ ContractBodyLoop
  \/ AnnotationsReturn

ParseSpec == ParseInit /\ [][ParseNext]_vars

ParseFairSpec == ParseSpec /\ WF_vars(ParseNext)

(***************************************************************************)
(* CompileSpec: one compile() over each source text, one stage at a step.  *)
(* A lexer that throws takes compile() with it; a parser that stays in     *)
(* contractBody() keeps compile() in phase 2, the steps being those of     *)
(* ParseSpec; the generator returns the text or throws (a RangeError when  *)
(* its recursion is deeper than the stack), which the model takes as an    *)
(* input of the run.                                                       *)
(***************************************************************************)
CompileInit ==
  /\ comp \in Compilations
  /\ lexer = NotCreated
  /\ parser = NotCreated
  /\ analyzer = NotCreated
  /\ gen = NotCreated
  /\ js = NotCreated
  /\ typing = NotCreated

Called(C, stage) == [C EXCEPT !.ran = Append(@, stage)]

CompileLexer ==
  /\ comp.pc = "lexer"
  /\ lexer' = tokenize(comp.source)
  /\ comp' = IF lexer'.threw
             THEN [Called(comp, "lexer") EXCEPT !.pc = "threw"]
             ELSE compileLexer(Called(comp, "lexer"), lexer')
  /\ UNCHANGED <<typing, js, parser, analyzer, gen>>

CompileParser ==
  /\ comp.pc = "parser"
  /\ parser' = parse(comp.tokens[1])
  /\ comp' = IF parser'.pc = "done"
             THEN compileParser(Called(comp, "parser"), parser', comp.program)
             ELSE [Called(comp, "parser") EXCEPT !.pc = "parsing"]
  /\ UNCHANGED <<typing, js, lexer, analyzer, gen>>

CompileAnalyzer ==
  /\ comp.pc = "analyzer"
  /\ analyzer' = analyze(comp.ast[1])
  /\ comp' = compileAnalyzer(Called(comp, "analyzer"), analyzer')
  /\ UNCHANGED <<typing, js, lexer, parser, gen>>

CompileGenerate ==
  /\ comp.pc = "codegen"
  /\ LET G == [NewGenerator(generatorOptions(comp.options).runtimeContracts)
                 EXCEPT !.program = comp.ast[1]]
     IN  IF comp.generatorThrows
         THEN /\ gen' = G
              /\ comp' = [Called(comp, "codegen") EXCEPT !.pc = "catch"]
         ELSE /\ gen' = [G EXCEPT !.output = generate(G, comp.ast[1]),
                                  !.pc = "done"]
              /\ comp' = compileGenerate(Called(comp, "codegen"),
                                         gen'.output)
  /\ UNCHANGED <<typing, js, lexer, parser, analyzer>>

CompileCatch ==
  /\ comp.pc = "catch"
  /\ comp' = compileCatch(comp, "Maximum call stack size exceeded")
  /\ UNCHANGED <<typing, js, lexer, parser, analyzer, gen>>

CompileNext ==
  \/ CompileLexer
  \/ CompileParser
  \/ CompileAnalyzer
  \/ CompileGenerate
  \/ CompileCatch
  \/ ContractBodyLoop
  \/ AnnotationsReturn

CompileSpec == CompileInit /\ [][CompileNext]_vars

(***************************************************************************)
(* Claims about the scanner and the parser                                 *)
(***************************************************************************)
\* C8: tokenize never throws: whatever the source text, the scan goes on to
\* the end of the input and ends with an EOF token, and a text with a
\* lexical problem leaves an entry in the error list.
C8_TokenizeNeverThrows ==
  /\ ~lexer.threw
  /\ lexer.done =>
       /\ lexer.current = Len(lexer.source)
       /\ lexer.tokens[Len(lexer.tokens)].type = "EOF"
       /\ (\E i \in 1..Len(lexer.tokens) : lexer.tokens[i].type = "INVALID")
            => lexer.errors # <<>>

\* C7: Parser.parse terminates on every token list that ends with EOF: it
\* reaches its return, whatever the declarations are.
C7_ParseTerminates == <>(parser.pc = "done")

(***************************************************************************)
(* The lowered function of GenSpec.                                        *)
(***************************************************************************)
\* The lines of the function body and of its completion: everything the
\* lowerer emits after the snapshot bindings.
BodyOps == {"statement", "result", "ensures", "return", "close"}

\* Every node of an expression tree, whatever its kind.
RECURSIVE SubExpressions(_)
SubExpressions(expr) ==
  LET all(exprs) == UNION { SubExpressions(exprs[k]) : k \in 1..Len(exprs) }
  IN
  {expr} \cup
  CASE expr.kind \in {"BinaryExpression", "AssignmentExpression"} ->
         SubExpressions(expr.left) \cup SubExpressions(expr.right)
    [] expr.kind = "UnaryExpression" -> SubExpressions(expr.operand)
    [] expr.kind = "CallExpression" ->
         SubExpressions(expr.callee) \cup all(expr.arguments)
    [] expr.kind = "MemberExpression" -> SubExpressions(expr.object)
    [] expr.kind = "IndexExpression" ->
         SubExpressions(expr.object) \cup SubExpressions(expr.index)
    [] expr.kind = "OldExpression" -> SubExpressions(expr.expression)
    [] expr.kind \in {"ArrayExpression", "TupleExpression"} ->
         all(expr.elements)
    [] expr.kind = "ForallExpression" ->
         SubExpressions(expr.condition)
           \cup UNION { SubExpressions(expr.bindings[k].range) :
                          k \in 1..Len(expr.bindings) }
    [] OTHER -> {}

\* The old(e) nodes of the ensures clauses of a function.
OldExpressionsOf(decl) ==
  { e \in UNION { SubExpressions(c) :
                    c \in { getEnsuresAnnotations(decl)[k] :
                              k \in 1..Len(getEnsuresAnnotations(decl)) } } :
      e.kind = "OldExpression" }

\* Line k of the output is a point where the lowered function completes: a
\* return, or the end of a body the last statement of which is no return.
CompletionPoint(k) ==
  LET body == gen.program[1].body
  IN  \/ gen.output[k].op = "return"
      \/ /\ gen.output[k].op = "close"
         /\ \/ body = <<>>
            \/ body[Len(body)].kind # "ReturnStatement"

\* The lines right before line k are one check of each ensures clause, and
\* no further check comes before them.
EnsuresCheckedOnceBefore(k) ==
  LET n == Len(getEnsuresAnnotations(gen.program[1]))
  IN  /\ k > n
      /\ \A j \in 1..n : gen.output[k - j].op = "ensures"
      /\ (k - n - 1 >= 1 => gen.output[k - n - 1].op # "ensures")

\* C9: with instrumentation on, at every point where a function with
\* ensures clauses completes (a return with a value, a bare return, the end
\* of the body) each ensures clause is checked exactly once right before.
C9_EnsuresOnEveryPath ==
  ( /\ gen.pc = "done"
    /\ gen.options.runtimeContracts
    /\ getEnsuresAnnotations(gen.program[1]) # <<>> )
  => \A k \in 1..Len(gen.output) :
       CompletionPoint(k) => EnsuresCheckedOnceBefore(k)

\* C10: for every old(e) of an ensures clause, at any depth, the lowered
\* function has exactly one snapshot binding of the name the lowered old(e)
\* refers to, it holds clone(e), and it stands after the requires checks and
\* before the first line of the body.
C10_EveryOldHasSnapshot ==
  (gen.pc = "done" /\ gen.options.runtimeContracts)
  => \A old \in OldExpressionsOf(gen.program[1]) :
       /\ \E k \in 1..Len(gen.output) :
            /\ gen.output[k] =
                 Line("snapshot", generateExpression(old)[1],
                      generateExpression(old.expression))
            /\ \A j \in 1..Len(gen.output) :
                 /\ gen.output[j].op = "requires" => j < k
                 /\ gen.output[j].op \in BodyOps => k < j
       /\ Cardinality({ k \in 1..Len(gen.output) :
                          /\ gen.output[k].op = "snapshot"
                          /\ gen.output[k].name = generateExpression(old)[1] })
            = 1

(***************************************************************************)
(* Claims about compile(), on CompileSpec                                  *)
(***************************************************************************)
AllStages == <<"lexer", "parser", "analyzer", "codegen">>

\* compile() is over: it returned, or an exception left it.
CompileOver == comp.pc \in {"returned", "threw"}

\* C1: with stopOnFirstError off, a compile() that is over has called the
\* four stages, in the order lexer, parser, analyzer, generator, whatever
\* the source text.
C1_AllStagesRun ==
  (~comp.options.stopOnFirstError /\ CompileOver) => comp.ran = AllStages

\* C2: with stopOnFirstError on, once the error list is not empty after the
\* lexer, the parser or the analyzer, compile() has returned success=false
\* with no output and has called no later stage; and a compile() that is
\* over with no error reported has called the four stages.
C2_StopOnFirstError ==
  comp.options.stopOnFirstError =>
    /\ (comp.errors # <<>> /\ comp.errors[1].phase # "codegen") =>
         /\ comp.pc = "returned"
         /\ ~comp.result[1].success
         /\ comp.result[1].output = Undefined
         /\ comp.ran[Len(comp.ran)] = comp.errors[1].phase
    /\ (CompileOver /\ comp.errors = <<>>) => comp.ran = AllStages

\* C3: the result of compile() has success=true if and only if its errors
\* list is empty, whatever the warnings and whether or not there is output.
C3_SuccessIffNoErrors ==
  comp.pc = "returned" =>
    (comp.result[1].success <=> comp.result[1].errors = <<>>)

\* The result has errors and output text, and success is false.
C3_Witness ==
  /\ comp.pc = "returned"
  /\ comp.result[1].errors # <<>>
  /\ comp.result[1].warnings # <<>>
  /\ comp.result[1].output # Undefined
  /\ ~comp.result[1].success

\* C4: when the generator has thrown, compile() returns next; the errors of
\* the result are the errors there were, followed by one diagnostic of phase
\* codegen; success is false, there is no output, and the warnings, the
\* tokens, the tree and the analysis result are those there were.
C4_GeneratorThrowCaught ==
  [][ comp.pc = "catch" =>
        /\ comp'.pc = "returned"
        /\ LET r == comp'.result[1]
               n == Len(comp.errors)
           IN  /\ Len(r.errors) = n + 1
               /\ SubSeq(r.errors, 1, n) = comp.errors
               /\ r.errors[n + 1].phase = "codegen"
               /\ \A k \in 1..n : r.errors[k].phase # "codegen"
               /\ ~r.success
               /\ r.output = Undefined
               /\ r.warnings = comp.warnings
               /\ r.tokens = Some(lexer.tokens)
               /\ r.ast = Some(comp.program)
               /\ r.analysisResult = Some([errors |-> analyzer.errors,
                                           warnings |-> analyzer.warnings]) ]_vars

\* The generator threw after earlier stages had reported diagnostics, and
\* compile() has returned.
C4_Witness ==
  /\ comp.pc = "returned"
  /\ comp.generatorThrows
  /\ comp.ran = AllStages
  /\ Len(comp.result[1].errors) > 1
  /\ comp.result[1].warnings # <<>>

\* What a stage object reported, as (message, line, column); nothing when
\* the stage was not created.
Reported(stage) ==
  IF stage = NotCreated THEN <<>>
  ELSE [k \in 1..Len(stage.errors) |->
          IF "location" \in DOMAIN stage.errors[k]
          THEN [message |-> stage.errors[k].message,
                line |-> stage.errors[k].location.line,
                column |-> stage.errors[k].location.column]
          ELSE [message |-> stage.errors[k].message,
                line |-> stage.errors[k].line,
                column |-> stage.errors[k].column]]

\* The diagnostics of one phase in a list, as (message, line, column).
OfPhase(errors, phase) ==
  LET sel == SelectSeq(errors, LAMBDA e : e.phase = phase)
  IN  [k \in 1..Len(sel) |->
         [message |-> sel[k].message, line |-> sel[k].line,
          column |-> sel[k].column]]

PhaseRank(phase) ==
  CASE phase = "lexer" -> 1
    [] phase = "parser" -> 2
    [] phase = "analyzer" -> 3
    [] phase = "codegen" -> 4

\* C5: in the errors of a result the phases come in the order lexer,
\* parser, analyzer, codegen, and the diagnostics of each stage are those
\* the stage reported, each once and in the order of the reports.
C5_PipelineOrder ==
  comp.pc = "returned" =>
    LET errors == comp.result[1].errors
    IN  /\ \A i, j \in 1..Len(errors) :
             i < j => PhaseRank(errors[i].phase) <= PhaseRank(errors[j].phase)
        /\ OfPhase(errors, "lexer") = Reported(lexer)
        /\ OfPhase(errors, "parser") = Reported(parser)
        /\ OfPhase(errors, "analyzer") = Reported(analyzer)
        /\ Len(OfPhase(errors, "codegen")) =
             IF comp.generatorThrows /\ comp.ran = AllStages THEN 1 ELSE 0

\* The result has diagnostics of the four phases, two of them of the
\* analyzer.
C5_Witness ==
  /\ comp.pc = "returned"
  /\ \A phase \in {"lexer", "parser", "analyzer", "codegen"} :
       OfPhase(comp.result[1].errors, phase) # <<>>
  /\ Len(OfPhase(comp.result[1].errors, "analyzer")) > 1

\* C6: of two diagnostics of the same phase (lexer, parser or analyzer) in
\* the errors of a result, the one listed first has a position (line,
\* column) that is not after the position of the other.
C6_SourceOrderWithinPhase ==
  comp.pc = "returned" =>
    LET errors == comp.result[1].errors
    IN  \A i, j \in 1..Len(errors) :
          ( /\ i < j
            /\ errors[i].phase = errors[j].phase
            /\ errors[i].phase # "codegen" )
          => \/ errors[i].line < errors[j].line
             \/ /\ errors[i].line = errors[j].line
                /\ errors[i].column <= errors[j].column

(***************************************************************************)
(* What a run of a lowered function shows, the guards holding: the body    *)
(* statements executed, in order, and the expression returned.  A guard    *)
(* that reads a snapshot name no line has bound ends the run with a        *)
(* ReferenceError.                                                         *)
(***************************************************************************)
\* The names the lowered old(e) of a function refer to.
SnapshotNames(decl) ==
  { generateExpression(old)[1] : old \in OldExpressionsOf(decl) }

RECURSIVE Run(_, _, _, _)
Run(lines, names, bound, result) ==
  IF lines = <<>> THEN <<>>
  ELSE LET line == Head(lines)
           rest == Tail(lines)
           unbound == \E k \in 1..Len(line.code) :
                        line.code[k] \in names \ bound
       IN  CASE line.op \in {"requires", "ensures"} ->
                  IF unbound THEN <<[event |-> "ReferenceError", code |-> <<>>]>>
                  ELSE Run(rest, names, bound, result)
             [] line.op = "snapshot" ->
                  Run(rest, names, bound \cup {line.name}, result)
             [] line.op = "statement" ->
                  <<[event |-> "statement", code |-> line.code]>>
                    \o Run(rest, names, bound, result)
             [] line.op = "result" -> Run(rest, names, bound, line.code)
             [] line.op = "return" ->
                  <<[event |-> "return",
                     code |-> IF line.code = <<"__result">> THEN result
                              ELSE line.code]>>
             [] OTHER -> Run(rest, names, bound, result)

\* C11: the function lowered with runtimeContracts on executes the same
\* body statements in the same order and returns the same expression as
\* the function lowered with runtimeContracts off, its guards holding.
C11_SameRunWithAndWithoutContracts ==
  (gen.pc = "done" /\ gen.options.runtimeContracts)
  => Run(gen.output, SnapshotNames(gen.program[1]), {}, <<>>)
       = Run(generate(NewGenerator(FALSE), gen.program),
             SnapshotNames(gen.program[1]), {}, <<>>)

(***************************************************************************)
(* The lowered expressions at run time.  A JavaScript value is a record of *)
(* its type t with a number n and a string s: an integer, a boolean (n is  *)
(* 1 or 0), undefined, the objects { ok: true, value: n } and              *)
(* { ok: false, error: s } of the helpers Ok and Err, an Error with the    *)
(* message s; an instance of a class is a record of the class and of its   *)
(* fields.  An evaluation ends with a value or with a throw, having        *)
(* applied the operations ops.  EvalLowered(expr, env) is the evaluation   *)
(* of the text generateExpression(expr), case by case; env gives the       *)
(* variables, the result of the calls and the struct declarations.         *)
(***************************************************************************)
JsValue(t, n, s) == [t |-> t, n |-> n, s |-> s]

JsInt(n) == JsValue("int", n, "")

JsBool(b) == JsValue("bool", IF b THEN 1 ELSE 0, "")

JsUndefined == JsValue("undefined", 0, "")

\* The helpers Ok(value) and Err(error) of the prelude.
JsOk(n) == JsValue("ok", n, "")

JsErr(s) == JsValue("err", 0, s)

Normal(value, ops) == [kind |-> "value", value |-> value, ops |-> ops]

Thrown(value, ops) == [kind |-> "throw", value |-> value, ops |-> ops]

\* The helper unwrap(result) of the prelude.
unwrap(result, ops) ==
  IF result.t = "ok" THEN Normal(JsInt(result.n), Append(ops, "unwrap"))
  ELSE Thrown(JsValue("error", 0, "Unwrap called on Err: " \o result.s),
              Append(ops, "unwrap"))

\* new Name(arguments), for the class generateStructDeclaration emits: the
\* constructor takes the fields in the order of the declaration.
construct(decl, arguments) ==
  [class |-> decl.name,
   fields |-> [f \in { decl.fields[k].name : k \in 1..Len(decl.fields) } |->
                 LET k == CHOOSE k \in 1..Len(decl.fields) :
                            decl.fields[k].name = f
                 IN  IF k <= Len(arguments) THEN arguments[k]
                     ELSE JsUndefined]]

RECURSIVE EvalLowered(_, _, _)

\* The expressions of a list, from left to right, until one throws.
RECURSIVE EvalAll(_, _, _, _)
EvalAll(exprs, env, ops, values) ==
  IF exprs = <<>> THEN Normal(values, ops)
  ELSE LET r == EvalLowered(Head(exprs), env, ops)
       IN  IF r.kind = "throw" THEN r
           ELSE EvalAll(Tail(exprs), env, r.ops, Append(values, r.value))

\* `subject === value` of generatePatternCheck, for a value already
\* evaluated.
patternCheck(pattern, subject) ==
  pattern.kind = "LiteralPattern" => subject = JsInt(pattern.value.value)

\* `const name = subject;` of generatePatternBindings, in the block of the
\* arm.
patternBindings(pattern, subject, env) ==
  IF pattern.kind = "IdentifierPattern"
  THEN [env EXCEPT !.variables =
          [x \in DOMAIN env.variables \cup {pattern.name.name} |->
             IF x = pattern.name.name THEN subject ELSE env.variables[x]]]
  ELSE env

\* The if statements of the arms from the i-th on, then the throw.  The
\* condition of an arm is evaluated where the function of the match begins,
\* its bindings and its body in the block of the if; `&&` leaves the guard
\* alone when the pattern does not match.  In a match statement the last
\* arm, when its pattern is the wildcard, is the return without an if.
\* Evaluating the body of the i-th arm is recorded as the operation "arm"i.
RECURSIVE EvalArms(_, _, _, _, _, _)
EvalArms(arms, i, subject, isStatement, env, ops) ==
  IF i > Len(arms)
  THEN Thrown(JsValue("error", 0, "Match not exhaustive"), ops)
  ELSE LET arm == arms[i]
           body(done) ==
             EvalLowered(arm.body, patternBindings(arm.pattern, subject, env),
                         Append(done, "arm" \o ToString(i)))
       IN  IF isStatement /\ i = Len(arms)
                /\ arm.pattern.kind = "WildcardPattern"
           THEN body(ops)
           ELSE IF ~patternCheck(arm.pattern, subject)
           THEN EvalArms(arms, i + 1, subject, isStatement, env, ops)
           ELSE IF arm.guard = Null THEN body(ops)
           ELSE LET g == EvalLowered(arm.guard, env, ops)
                IN  IF g.kind = "throw" THEN g
                    ELSE IF g.value.n # 0 THEN body(g.ops)
                    ELSE EvalArms(arms, i + 1, subject, isStatement, env,
                                  g.ops)

EvalLowered(expr, env, ops) ==
  CASE expr.kind = "Literal" -> Normal(JsInt(expr.value), ops)
    [] expr.kind = "Identifier" ->
         IF expr.name \in DOMAIN env.variables
         THEN Normal(env.variables[expr.name], ops)
         ELSE Thrown(JsValue("error", 0, expr.name \o " is not defined"),
                     ops)
    [] expr.kind \in {"MatchExpression", "MatchStatement"} ->
         LET s == EvalLowered(expr.subject, env, ops)
         IN  IF s.kind = "throw" THEN s
             ELSE EvalArms(expr.arms, 1, s.value,
                           expr.kind = "MatchStatement", env, s.ops)
    [] expr.kind = "CallExpression" -> Normal(env.called, Append(ops, "call"))
    [] expr.kind = "TryExpression" ->
         LET r == EvalLowered(expr.expression, env, ops)
         IN  IF r.kind = "throw" THEN r ELSE unwrap(r.value, r.ops)
    [] expr.kind = "BinaryExpression" ->
         LET r == EvalAll(<<expr.left, expr.right>>, env, ops, <<>>)
         IN  IF r.kind = "throw" THEN r
             ELSE Normal(JsInt(r.value[1].n + r.value[2].n),
                         Append(r.ops, expr.operator))
    [] expr.kind = "StructExpression" ->
         LET r == EvalAll([k \in 1..Len(expr.fields) |->
                             expr.fields[k].value], env, ops, <<>>)
         IN  IF r.kind = "throw" THEN r
             ELSE Normal(construct(env.structs[expr.type], r.value),
                         Append(r.ops, "new"))
    [] expr.kind = "IfExpression" ->
         LET c == EvalLowered(expr.condition, env, ops)
         IN  IF c.kind = "throw" THEN c
             ELSE IF c.value.n # 0
             THEN EvalLowered(expr.thenBranch, env, c.ops)
             ELSE IF expr.elseBranch # Null
             THEN EvalLowered(expr.elseBranch, env, c.ops)
             ELSE Normal(JsUndefined, c.ops)
    [] expr.kind = "BlockExpression" ->
         IF expr.statements = <<>> /\ expr.expression # Null
         THEN EvalLowered(expr.expression, env, ops)
         ELSE LET r == EvalAll([k \in 1..Len(expr.statements) |->
                                  expr.statements[k].expression],
                               env, ops, <<>>)
              IN  IF r.kind = "throw" THEN r
                  ELSE IF expr.expression # Null
                  THEN EvalLowered(expr.expression, env, r.ops)
                  ELSE Normal(JsUndefined, r.ops)

(***************************************************************************)
(* Expressions given to the lowerer and then evaluated, as the parser      *)
(* builds them, with integers of 0..MaxValue:                              *)
(*   parse("x")?   parse("x")? + n      in a function returning a Result,  *)
(*   Point { x: a, y: b }   Point { y: b, x: a }   for struct Point {x, y},*)
(*   if c { a } else { b }   if c { a },                                   *)
(* and the matches of MatchForms, each as a match expression and as a      *)
(* match statement:                                                        *)
(*   "plain"      match s { 1 => a, _ => b }                               *)
(*   "guarded"    match s { 1 if c => a, _ => b }                          *)
(*   "guardLast"  match s { 1 => a, _ if c => b }                          *)
(*   "bindBody"   match s { y if c => y, _ => b }                          *)
(*   "guardBound" match c { y if y => a, _ => b }                          *)
(* with s an integer variable and c a boolean variable.                    *)
(***************************************************************************)
MaxValue == 2

\* postfix(), the case of `?`
TryExpression(expression) ==
  [kind |-> "TryExpression", expression |-> expression]

ParseCall ==
  [kind |-> "CallExpression", callee |-> Identifier("parse"),
   arguments |-> <<[kind |-> "Literal", literalKind |-> "string",
                    value |-> "x"]>>]

\* structExpression(), without spread
StructExpression(type, fields) ==
  [kind |-> "StructExpression", type |-> type, fields |-> fields,
   spread |-> Null]

\* The block of an if expression, as ifExpression() and primary() build it
\* from blockStatement(): the statements, and no trailing expression.
BlockExpression(statements) ==
  [kind |-> "BlockExpression", statements |-> statements,
   expression |-> Null]

ExpressionStatement(expression) ==
  [kind |-> "ExpressionStatement", expression |-> expression]

\* ifExpression()
IfExpression(condition, thenStatements, elseBranch) ==
  [kind |-> "IfExpression", condition |-> condition,
   thenBranch |-> BlockExpression(thenStatements),
   elseBranch |-> elseBranch]

PointDeclaration ==
  [kind |-> "StructDeclaration", name |-> "Point",
   fields |-> <<[name |-> "x"], [name |-> "y"]>>]

Values == 0..MaxValue

TryExpressions ==
  {TryExpression(ParseCall)}
    \cup { BinaryExpression(TryExpression(ParseCall), "+", Literal(n)) :
             n \in Values }

StructExpressions ==
  { StructExpression("Point", <<[name |-> "x", value |-> Literal(a)],
                               [name |-> "y", value |-> Literal(b)]>>) :
      a, b \in Values }
    \cup
  { StructExpression("Point", <<[name |-> "y", value |-> Literal(b)],
                               [name |-> "x", value |-> Literal(a)]>>) :
      a, b \in Values }

IfExpressions ==
  { IfExpression(Identifier("c"), <<ExpressionStatement(Literal(a))>>,
                 BlockExpression(<<ExpressionStatement(Literal(b))>>)) :
      a, b \in Values }
    \cup
  { IfExpression(Identifier("c"), <<ExpressionStatement(Literal(a))>>, Null) :
      a \in Values }

\* matchArm()
MatchArm(pattern, guard, body) ==
  [kind |-> "MatchArm", pattern |-> pattern, guard |-> guard, body |-> body]

\* pattern()
WildcardPattern == [kind |-> "WildcardPattern"]

LiteralPattern(value) == [kind |-> "LiteralPattern", value |-> Literal(value)]

IdentifierPattern(name) ==
  [kind |-> "IdentifierPattern", name |-> Identifier(name),
   isMutable |-> FALSE]

MatchForms == {"plain", "guarded", "guardLast", "bindBody", "guardBound"}

MatchArms(form, a, b) ==
  CASE form = "plain" ->
         <<MatchArm(LiteralPattern(1), Null, Literal(a)),
           MatchArm(WildcardPattern, Null, Literal(b))>>
    [] form = "guarded" ->
         <<MatchArm(LiteralPattern(1), Identifier("c"), Literal(a)),
           MatchArm(WildcardPattern, Null, Literal(b))>>
    [] form = "guardLast" ->
         <<MatchArm(LiteralPattern(1), Null, Literal(a)),
           MatchArm(WildcardPattern, Identifier("c"), Literal(b))>>
    [] form = "bindBody" ->
         <<MatchArm(IdentifierPattern("y"), Identifier("c"), Identifier("y")),
           MatchArm(WildcardPattern, Null, Literal(b))>>
    [] form = "guardBound" ->
         <<MatchArm(IdentifierPattern("y"), Identifier("y"), Literal(a)),
           MatchArm(WildcardPattern, Null, Literal(b))>>

\* matchExpression() and matchStatement()
Match(kind, form, a, b) ==
  [kind |-> kind,
   subject |-> Identifier(IF form = "guardBound" THEN "c" ELSE "s"),
   arms |-> MatchArms(form, a, b)]

Matches ==
  { Match(kind, form, a, b) :
      kind \in {"MatchExpression", "MatchStatement"}, form \in MatchForms,
      a, b \in Values }

MatchEnv(s, c) ==
  [called |-> JsOk(0), variables |-> [c |-> JsBool(c), s |-> JsInt(s)],
   structs |-> [Point |-> PointDeclaration]]

CallResults == { JsOk(n) : n \in Values } \cup {JsErr("bad"), JsErr("worse")}

JsEnv(called, c) ==
  [called |-> called, variables |-> [c |-> JsBool(c)],
   structs |-> [Point |-> PointDeclaration]]

NewRun(expr, env) ==
  [expr |-> expr, env |-> env, text |-> <<>>, outcome |-> Null,
   pc |-> "lower"]

Runs ==
  { NewRun(expr, JsEnv(called, TRUE)) :
      expr \in TryExpressions, called \in CallResults }
    \cup { NewRun(expr, JsEnv(JsOk(0), TRUE)) : expr \in StructExpressions }
    \cup { NewRun(expr, JsEnv(JsOk(0), c)) :
             expr \in IfExpressions, c \in BOOLEAN }
    \cup { NewRun(expr, MatchEnv(s, c)) :
             expr \in Matches, s \in Values, c \in BOOLEAN }

(***************************************************************************)
(* EvalSpec: the function `return expr` is lowered, then called once.      *)
(***************************************************************************)
EvalInit ==
  /\ js \in Runs
  /\ typing = NotCreated
  /\ lexer = NotCreated
  /\ parser = NotCreated
  /\ analyzer = NotCreated
  /\ gen = NotCreated
  /\ comp = NotCreated

EvalLower ==
  /\ js.pc = "lower"
  /\ js' = [js EXCEPT
              !.text = IF js.expr.kind = "MatchStatement"
                       THEN generateStatement(NewGenerator(FALSE),
                                              js.expr).output
                       ELSE generateExpression(js.expr),
              !.pc = "call"]
  /\ UNCHANGED <<typing, lexer, parser, analyzer, gen, comp>>

\* The call of the lowered function: its return statement evaluates the
\* expression; a throw leaves the function.
EvalCall ==
  /\ js.pc = "call"
  /\ LET r == EvalLowered(js.expr, js.env, <<>>)
     IN  js' = [js EXCEPT !.outcome = r,
                          !.pc = IF r.kind = "throw" THEN "threw"
                                 ELSE "returned"]
  /\ UNCHANGED <<typing, lexer, parser, analyzer, gen, comp>>

EvalNext == EvalLower \/ EvalCall

EvalSpec == EvalInit /\ [][EvalNext]_vars

\* C12: in lowered code, `e?` with e = Err(x) makes the enclosing function
\* finish with Err(x) as its result and without the rest of the expression
\* (no `+`) evaluated; with e = Ok(v), `e?` has the value v.
C12_TryPropagatesErr ==
  (js.pc \in {"returned", "threw"} /\ js.expr \in TryExpressions) =>
    /\ js.env.called.t = "err" =>
         /\ js.pc = "returned"
         /\ js.outcome.value = js.env.called
         /\ \A k \in 1..Len(js.outcome.ops) : js.outcome.ops[k] # "+"
    /\ js.env.called.t = "ok" =>
         /\ js.pc = "returned"
         /\ js.outcome.value =
              JsInt(js.env.called.n
                      + (IF js.expr.kind = "BinaryExpression"
                         THEN js.expr.right.value ELSE 0))

\* C18: a struct literal without spread lowers to a constructor call that
\* stores each value in the field the literal names, whatever the order
\* in which the literal lists the fields.
C18_StructLiteralFieldOrder ==
  (js.pc = "returned" /\ js.expr \in StructExpressions) =>
    \A k \in 1..Len(js.expr.fields) :
      js.outcome.value.fields[js.expr.fields[k].name]
        = JsInt(js.expr.fields[k].value.value)

\* The trailing expression of a block the parser built: that of its last
\* statement.
TrailingValue(block) ==
  block.statements[Len(block.statements)].expression.value

\* C19: an if used as an expression has, once lowered, the value of the
\* trailing expression of the branch taken.
C19_IfExpressionValue ==
  (js.pc = "returned" /\ js.expr \in IfExpressions) =>
    /\ js.env.variables["c"].n = 1 =>
         js.outcome.value = JsInt(TrailingValue(js.expr.thenBranch))
    /\ (js.env.variables["c"].n = 0 /\ js.expr.elseBranch # Null) =>
         js.outcome.value = JsInt(TrailingValue(js.expr.elseBranch))

(***************************************************************************)
(* The effect discipline and the diagnostics of the analyzer, over         *)
(* AnalyzeSpec.                                                            *)
(***************************************************************************)
\* The number of members of a list that satisfy Test.
CountOf(list, Test(_)) == Len(SelectSeq(list, Test))

\* The first function declaration of that name in the program, which is
\* the one whose signature the symbol gets.
IsFunction(program, name) ==
  \E k \in 1..Len(program) :
    program[k].kind = "FunctionDeclaration" /\ program[k].name = name

FunctionNamed(program, name) ==
  program[CHOOSE k \in 1..Len(program) :
            /\ program[k].kind = "FunctionDeclaration"
            /\ program[k].name = name
            /\ \A j \in 1..(k - 1) :
                 ~(program[j].kind = "FunctionDeclaration"
                   /\ program[j].name = name)]

\* The calls of a top-level statement: the calls that are statements of a
\* function's body, or the statement itself.
CallsOf(stmt) ==
  CASE stmt.kind = "FunctionDeclaration" ->
         { stmt.body[k].expression :
             k \in { j \in 1..Len(stmt.body) :
                       stmt.body[j].expression.kind = "CallExpression" } }
    [] stmt.kind = "ExpressionStatement"
         /\ stmt.expression.kind = "CallExpression" -> { stmt.expression }
    [] OTHER -> {}

\* The effect set a top-level statement declares for the calls in it.
EffectsDeclaredBy(stmt) ==
  IF stmt.kind = "FunctionDeclaration" THEN declaredEffects(stmt) ELSE {}

RequiresEffect(name) ==
  "Function requires effect " \o name
    \o " which is not declared in current context"

\* C13: when analyze() has returned, for every call of the program to a
\* function whose @effect list names effects of the program, the errors
\* hold exactly one 'requires effect X' error at the call for each effect X
\* of the callee's list that the enclosing function does not declare, and
\* none for an effect it declares; a call outside any function is checked
\* against the empty set.
C13_CallRequiresDeclaredEffects ==
  analyzer.pc = "done" =>
    \A k \in 1..Len(analyzer.program) :
      \A call \in CallsOf(analyzer.program[k]) :
        ( /\ call.callee.kind = "Identifier"
          /\ IsFunction(analyzer.program, call.callee.name) ) =>
          LET callee == FunctionNamed(analyzer.program, call.callee.name)
          IN  \A X \in declaredEffects(callee) :
                A_lookupType(analyzer, X) = "effect" =>
                  CountOf(analyzer.errors,
                          LAMBDA e : /\ e.location = call.location
                                     /\ e.message = RequiresEffect(X))
                    = IF X \in EffectsDeclaredBy(analyzer.program[k])
                      THEN 0 ELSE 1

\* C14: when analyze() has returned, every function declared pure whose
\* @effect list names an effect of the program has an error reported on
\* its declaration.
C14_PureWithEffectsRejected ==
  analyzer.pc = "done" =>
    \A k \in 1..Len(analyzer.program) :
      LET decl == analyzer.program[k]
      IN  ( /\ decl.kind = "FunctionDeclaration"
            /\ decl.isPure
            /\ \E X \in declaredEffects(decl) :
                 A_lookupType(analyzer, X) = "effect" )
          => \E j \in 1..Len(analyzer.errors) :
               analyzer.errors[j].location.line = decl.location.line

\* The program with its struct and effect declarations moved in front of
\* everything else, each group in the order it had.
IsTypeDeclaration(stmt) ==
  stmt.kind \in {"StructDeclaration", "EffectDeclaration"}

DeclarationsFirst(program) ==
  SelectSeq(program, IsTypeDeclaration)
    \o SelectSeq(program, LAMBDA stmt : ~IsTypeDeclaration(stmt))

\* Two lists hold the same members the same number of times.
SameBag(a, b) ==
  \A k \in 1..Len(a \o b) :
    CountOf(a, LAMBDA e : e = (a \o b)[k])
      = CountOf(b, LAMBDA e : e = (a \o b)[k])

\* C15: when analyze() has returned, the function types of the symbols
\* (with the effects they record) and the diagnostics are those of the
\* same program with the struct and effect declarations moved before the
\* functions that refer to them.
C15_DeclarationOrderIrrelevant ==
  analyzer.pc = "done" =>
    LET first == analyze(DeclarationsFirst(analyzer.program))
    IN  /\ analyzer.functions = first.functions
        /\ SameBag(analyzer.errors, first.errors)
        /\ SameBag(analyzer.warnings, first.warnings)

\* The expressions of a top-level statement that hold the operand y.
HasOperand(stmt, name) ==
  \/ /\ stmt.kind = "VariableDeclaration"
     /\ stmt.initializer.kind = "Identifier"
     /\ stmt.initializer.name = name
  \/ /\ stmt.kind = "ExpressionStatement"
     /\ stmt.expression.kind = "BinaryExpression"
     /\ stmt.expression.left.kind = "Identifier"
     /\ stmt.expression.left.name = name

\* C16: when analyze() has returned, a variable declaration or an
\* arithmetic expression whose operand is an undefined identifier has
\* exactly one error on its line.
C16_NoCascade ==
  analyzer.pc = "done" =>
    \A k \in 1..Len(analyzer.program) :
      ( /\ HasOperand(analyzer.program[k], "y")
        /\ A_lookup(analyzer, "y") = "null" )
      => CountOf(analyzer.errors,
                 LAMBDA e : e.location.line
                              = analyzer.program[k].location.line) = 1

\* C17: when generate() has returned for a Compiler whose verifyLevel is
\* 'trusted', the lowered text holds no requires and no ensures guard,
\* whatever runtimeContracts is.
C17_TrustedEmitsNoGuards ==
  (gen.pc = "done" /\ comp.options.verifyLevel = "trusted") =>
    \A k \in 1..Len(gen.output) :
      gen.output[k].op \notin {"requires", "ensures"}

(***************************************************************************)
(* SessionSpec: one process that loads the module once and then analyzes   *)
(* one program after another, as successive calls of compileIntent() do;   *)
(* each analyzer is new, the counter of createTypeVariable is the          *)
(* module's.  A call is synchronous, so two compilations do not overlap.   *)
(***************************************************************************)
MaxTypeVarCounter == 2

SessionForms == {"Box", "Foo", "f"}

SessionPrograms ==
  { ProgramOf(forms) : forms \in SeqsUpTo(SessionForms, MaxDecls) }

SessionInit ==
  /\ analyzer \in { NewAnalyzer(program) : program \in SessionPrograms }
  /\ lexer = NotCreated
  /\ parser = NotCreated
  /\ gen = NotCreated
  /\ comp = NotCreated
  /\ js = NotCreated
  /\ typing = NotCreated

\* The next call of compileIntent(): analyze() makes a new analyzer.
CompileAgain ==
  /\ analyzer.pc = "done"
  /\ analyzer.typeVarCounter < MaxTypeVarCounter
  /\ \E program \in SessionPrograms :
       analyzer' = [NewAnalyzer(program)
                      EXCEPT !.typeVarCounter = analyzer.typeVarCounter]
  /\ UNCHANGED <<typing, js, lexer, parser, gen, comp>>

SessionNext ==
  \/ AnalyzeCollect
  \/ AnalyzeSecondPass
  \/ AnalyzeStatement
  \/ AnalyzeReturn
  \/ CompileAgain

SessionSpec == SessionInit /\ [][SessionNext]_vars

\* The AnalysisResult analyze() returns: the diagnostics and what the
\* symbol table holds.
AnalysisResult(A) ==
  [ errors |-> A.errors, warnings |-> A.warnings, types |-> A.types,
    symbols |-> A.symbols, functions |-> A.functions, structs |-> A.structs ]

\* C20: whenever analyze() has returned, its result, with the identities
\* of the type variables in it, is the result the same program has in a
\* process that compiled nothing before.
C20_ResultDependsOnSourceOnly ==
  analyzer.pc = "done" =>
    AnalysisResult(analyzer) = AnalysisResult(analyze(analyzer.program))

\* The top-level statements that define a name in the global scope.
DefinesName(stmt) ==
  stmt.kind \in {"FunctionDeclaration", "StructDeclaration",
                 "EffectDeclaration", "VariableDeclaration"}

\* The program with the name its k-th statement defines changed to one
\* that nothing else has.
Renamed(program, k) == [program EXCEPT ![k].name = "renamed"]

\* The function with the name of its k-th parameter changed likewise.
ParameterRenamed(program, i, k) ==
  [program EXCEPT ![i].parameters[k].name = "renamed"]

\* The analyzer holds, on that line, an error that the other analysis does
\* not hold.
ErrorOnlyHere(line, other) ==
  \E j \in 1..Len(analyzer.errors) :
    /\ analyzer.errors[j].location.line = line
    /\ \A i \in 1..Len(other.errors) : other.errors[i] # analyzer.errors[j]

\* C21: when analyze() has returned, every top-level function, struct or
\* variable that has the name of an earlier one of its kind, and every
\* function with two parameters of one name, has an error on its line that
\* the program does not have when the second definition has another name.
C21_DuplicateDefinitionReported ==
  analyzer.pc = "done" =>
    /\ \A k \in 1..Len(analyzer.program) :
         ( /\ DefinesName(analyzer.program[k])
           /\ \E j \in 1..(k - 1) :
                /\ analyzer.program[j].kind = analyzer.program[k].kind
                /\ analyzer.program[j].name = analyzer.program[k].name )
         => ErrorOnlyHere(analyzer.program[k].location.line,
                          analyze(Renamed(analyzer.program, k)))
    /\ \A i \in 1..Len(analyzer.program) :
         analyzer.program[i].kind = "FunctionDeclaration" =>
           \A k \in 1..Len(analyzer.program[i].parameters) :
             (\E j \in 1..(k - 1) :
                analyzer.program[i].parameters[j].name
                  = analyzer.program[i].parameters[k].name)
             => ErrorOnlyHere(
                  analyzer.program[i].location.line,
                  analyze(ParameterRenamed(analyzer.program, i, k)))

\* C22: when analyze() has returned, every call E.m() of a method of an
\* effect E of the program has an error at the call when the enclosing
\* function does not declare E, or the call is outside any function, and
\* no 'requires effect E' error when the function declares E.
C22_EffectMethodCallChecked ==
  analyzer.pc = "done" =>
    \A k \in 1..Len(analyzer.program) :
      \A call \in CallsOf(analyzer.program[k]) :
        ( /\ call.callee.kind = "MemberExpression"
          /\ A_lookup(analyzer, call.callee.object.name) = "effect"
          /\ \E f \in analyzer.functions :
               f.name = call.callee.object.name \o "." \o call.callee.property )
        => IF call.callee.object.name
                \in EffectsDeclaredBy(analyzer.program[k])
           THEN \A j \in 1..Len(analyzer.errors) :
                  ~ ( /\ analyzer.errors[j].location = call.location
                      /\ analyzer.errors[j].message
                           = RequiresEffect(call.callee.object.name) )
           ELSE \E j \in 1..Len(analyzer.errors) :
                  analyzer.errors[j].location = call.location

(***************************************************************************)
(* Claims about the names of the old-snapshot bindings, on GenSpec         *)
(***************************************************************************)
\* The pieces of text that cannot stand in an identifier of the host
\* language: the blanks and the operators exprToString writes between the
\* operands, and the "<expr>" it writes for the other kinds of expression.
NotIdentifierText ==
  {" ", "<expr>", "+", "-", "*", "/", "%", "==", "!=", "<", ">", "<=", ">=",
   "&&", "||", ".", "[", "]"}

\* The name generateOldExpression makes is an identifier of the host
\* language.
ValidSnapshotName(old) ==
  \A k \in 1..Len(exprToString(old.expression)) :
    replaceBrackets(exprToString(old.expression))[k] \notin NotIdentifierText

\* C23: the snapshot names are unique per snapshotted expression, so two
\* old(e) of the ensures clauses with different e have different names, and
\* every generated name is a valid identifier of the host language.
C23_SnapshotNamesUniqueAndValid ==
  gen.pc = "done"
  => /\ \A old1, old2 \in OldExpressionsOf(gen.program[1]) :
          old1.expression # old2.expression
          => generateOldExpression(old1) # generateOldExpression(old2)
     /\ \A old \in OldExpressionsOf(gen.program[1]) : ValidSnapshotName(old)

\* The expression nodes of a statement of the programs given to the
\* analyzer.
RECURSIVE ExpressionsOf(_)
ExpressionsOf(stmt) ==
  CASE stmt.kind = "ExpressionStatement" -> SubExpressions(stmt.expression)
    [] stmt.kind = "VariableDeclaration" ->
         IF stmt.initializer = Null THEN {}
         ELSE SubExpressions(stmt.initializer)
    [] stmt.kind = "FunctionDeclaration" ->
         UNION { ExpressionsOf(stmt.body[k]) : k \in 1..Len(stmt.body) }
    [] OTHER -> {}

\* C24: when analyze() has returned, every expression node reachable from
\* the root of the program, the arguments of every call included, has a type
\* in the type map.
C24_EveryExpressionTyped ==
  analyzer.pc = "done"
  => \A k \in 1..Len(analyzer.program) :
       \A expr \in ExpressionsOf(analyzer.program[k]) :
         \E entry \in analyzer.typeMap : entry.node = expr

(***************************************************************************)
(* Claims about the spans of the tokens, on LexSpec                        *)
(***************************************************************************)
\* The token spans a slice of the source that is its value.
ValidSpan(token, source) ==
  /\ 0 <= token.offset
  /\ token.offset + token.length <= Len(source)
  /\ SubSeq(source, token.offset + 1, token.offset + token.length)
       = token.value

\* C25: every token tokenize() returns, INVALID tokens and the EOF token
\* included, spans a valid slice of the source: its offset is not negative,
\* offset + length is at most the length of the source, and the slice is the
\* token's value.
C25_TokensSpanSource ==
  lexer.done
  => \A k \in 1..Len(lexer.tokens) : ValidSpan(lexer.tokens[k], lexer.source)

(***************************************************************************)
(* TypeSpec: one call isAssignableTo(source, target) for each pair of      *)
(* types of at most MaxTypeDepth type constructors around a primitive, a   *)
(* struct, Void, Never or unknown.  No code of the compiler makes an error *)
(* type, so none is drawn.                                                 *)
(***************************************************************************)
MaxTypeDepth == 1

BaseTypes ==
  { [kind |-> "primitive", name |-> n] : n \in PrimitiveNames }
    \cup { [kind |-> "struct", name |-> n] : n \in {"S", "T"} }
    \cup { [kind |-> "void", name |-> ""], [kind |-> "never", name |-> ""],
           [kind |-> "unknown", name |-> ""] }

RECURSIVE TypesOfDepth(_)
TypesOfDepth(n) ==
  IF n = 0 THEN BaseTypes
  ELSE LET inner == TypesOfDepth(n - 1)
       IN  inner
             \cup { [kind |-> "optional", inner |-> t] : t \in inner }
             \cup { [kind |-> "reference", isMutable |-> m, inner |-> t] :
                      m \in BOOLEAN, t \in inner }

TypeInit ==
  /\ typing \in { [pc |-> "call", source |-> s, target |-> t,
                   result |-> FALSE] :
                    s \in TypesOfDepth(MaxTypeDepth),
                    t \in TypesOfDepth(MaxTypeDepth) }
  /\ lexer = NotCreated
  /\ parser = NotCreated
  /\ analyzer = NotCreated
  /\ gen = NotCreated
  /\ comp = NotCreated
  /\ js = NotCreated

TypeCall ==
  /\ typing.pc = "call"
  /\ typing' = [typing EXCEPT
                  !.result = isAssignableTo(typing.source, typing.target),
                  !.pc = "returned"]
  /\ UNCHANGED <<lexer, parser, analyzer, gen, comp, js>>

TypeNext == TypeCall

TypeSpec == TypeInit /\ [][TypeNext]_vars

\* The relation of the two types that is: Never to anything, anything to
\* unknown, a type to an equal type, T to T? (and with it whatever is
\* assignable to T), &T to &T and &mut T to &T, an integer to an integer and
\* a float to a float of at least its width, an integer to a float.
RECURSIVE ListedAssignable(_, _)
ListedAssignable(source, target) ==
  \/ source.kind = "never"
  \/ target.kind = "unknown"
  \/ source = target
  \/ target.kind = "optional" /\ ListedAssignable(source, target.inner)
  \/ /\ source.kind = "reference" /\ target.kind = "reference"
     /\ source.inner = target.inner
     /\ source.isMutable \/ ~target.isMutable
  \/ /\ isInteger(source) /\ isInteger(target)
     /\ getNumericSize(source) <= getNumericSize(target)
  \/ /\ isFloat(source) /\ isFloat(target)
     /\ getNumericSize(source) <= getNumericSize(target)
  \/ isInteger(source) /\ isFloat(target)

\* C26: isAssignableTo accepts a pair of types exactly when the pair is in
\* the listed relation: among references only &T to &T and &mut T to &T,
\* never &T to &mut T and never &S to &T for different S and T; T to T? and
\* not T? to T; numeric widening only.
C26_AssignabilityAsListed ==
  typing.pc = "returned"
  => (typing.result <=> ListedAssignable(typing.source, typing.target))

(***************************************************************************)
(* BodySpec: the analyzer over programs of at most MaxBodyDecls            *)
(* declarations, one on a line, each of one of the forms                   *)
(*   fn w(x: Int) { while true @invariant old(x) == x { let a = x } }      *)
(*   fn e(x: Int) @ensures old(x) == x { old(x) }                          *)
(*   fn n(x: Int) @ensures { while true @invariant true { } old(x) == x }  *)
(*                { }                                                      *)
(*   fn m(x: Int) { match x { y if y == x => y, (a, b) => a, _ => x } }    *)
(*   fn l() { |a: Int| a }                                                 *)
(*   fn fa(x: Int) @requires forall i in x: i == x { exists j: j == x }    *)
(*   fn r(x: Int) { for i in x @invariant old(i) == i { i } }              *)
(*   fn b() { { let a = true } a }                                         *)
(*   struct P { a: Int  @invariant forall i: old(i) == i }                 *)
(*   x                         a                                           *)
(* No form defines x or a in the global scope, and the literals are all    *)
(* of one kind.                                                            *)
(***************************************************************************)
MaxBodyDecls == 2

IdentifierAt(name, line, column) ==
  [kind |-> "Identifier", name |-> name, location |-> Loc(line, column)]

LiteralAt(literalKind, value, line, column) ==
  [kind |-> "Literal", literalKind |-> literalKind, value |-> value,
   location |-> Loc(line, column)]

OldAt(name, line, column) ==
  [kind |-> "OldExpression",
   expression |-> IdentifierAt(name, line, column + 4),
   location |-> Loc(line, column)]

\* left == right, the operands being one character wide
EqualsAt(left, right, line, column) ==
  [kind |-> "BinaryExpression", operator |-> "==", left |-> left,
   right |-> right, location |-> Loc(line, column)]

\* old(name) == name
OldEqualsAt(name, line, column) ==
  EqualsAt(OldAt(name, line, column), IdentifierAt(name, line, column + 10),
           line, column)

ExpressionStatementAt(expression) ==
  [kind |-> "ExpressionStatement", expression |-> expression,
   location |-> expression.location]

InvariantAt(condition, line, column) ==
  [kind |-> "InvariantAnnotation", condition |-> condition,
   location |-> Loc(line, column)]

WhileAt(invariants, body, line, column) ==
  [kind |-> "WhileStatement",
   condition |-> LiteralAt("boolean", TRUE, line, column + 6),
   invariants |-> invariants, body |-> body, location |-> Loc(line, column)]

ParameterAt(name, line, column) ==
  [name |-> name, type |-> PrimitiveType("Int", line, column + 3),
   location |-> Loc(line, column)]

\* word name [in range]: name == x
QuantifierAt(word, name, range, line, column) ==
  [kind |-> IF word = "forall" THEN "ForallExpression"
            ELSE "ExistsExpression",
   bindings |-> <<[name |-> name, range |-> range,
                   location |-> Loc(line, column + 7)]>>,
   condition |-> EqualsAt(IdentifierAt(name, line, column + 20),
                          IdentifierAt("x", line, column + 25),
                          line, column + 20),
   location |-> Loc(line, column)]

BodyForms == {"w", "e", "n", "m", "l", "fa", "r", "b", "P", "x", "a"}

BodyOn(form, line) ==
  CASE form = "w" ->
         FunctionDeclaration(
           "w", <<ParameterAt("x", line, 6)>>, <<>>,
           <<WhileAt(<<InvariantAt(OldEqualsAt("x", line, 37), line, 26)>>,
                     <<[kind |-> "VariableDeclaration", name |-> "a",
                        type |-> Null,
                        initializer |-> IdentifierAt("x", line, 60),
                        location |-> Loc(line, 52)]>>,
                     line, 16)>>,
           line)
    [] form = "e" ->
         FunctionDeclaration(
           "e", <<ParameterAt("x", line, 6)>>,
           <<[kind |-> "EnsuresAnnotation",
              condition |-> OldEqualsAt("x", line, 23),
              location |-> Loc(line, 14)]>>,
           <<ExpressionStatementAt(OldAt("x", line, 37))>>, line)
    [] form = "n" ->
         FunctionDeclaration(
           "n", <<ParameterAt("x", line, 6)>>,
           <<[kind |-> "EnsuresAnnotation",
              condition |->
                [kind |-> "BlockExpression",
                 statements |->
                   <<WhileAt(<<InvariantAt(
                                 LiteralAt("boolean", TRUE, line, 47),
                                 line, 36)>>,
                             <<>>, line, 25),
                     ExpressionStatementAt(OldEqualsAt("x", line, 56))>>,
                 expression |-> Null, location |-> Loc(line, 23)],
              location |-> Loc(line, 14)]>>,
           <<>>, line)
    [] form = "m" ->
         FunctionDeclaration(
           "m", <<ParameterAt("x", line, 6)>>, <<>>,
           <<[kind |-> "MatchStatement",
              subject |-> IdentifierAt("x", line, 22),
              arms |->
                <<[pattern |-> [kind |-> "IdentifierPattern", name |-> "y",
                                location |-> Loc(line, 26)],
                   guard |-> EqualsAt(IdentifierAt("y", line, 31),
                                      IdentifierAt("x", line, 36), line, 31),
                   body |-> IdentifierAt("y", line, 41),
                   location |-> Loc(line, 26)],
                  [pattern |->
                     [kind |-> "TuplePattern",
                      elements |->
                        <<[kind |-> "IdentifierPattern", name |-> "a",
                           location |-> Loc(line, 45)],
                          [kind |-> "IdentifierPattern", name |-> "b",
                           location |-> Loc(line, 48)]>>,
                      location |-> Loc(line, 44)],
                   guard |-> Null,
                   body |-> IdentifierAt("a", line, 54),
                   location |-> Loc(line, 44)],
                  [pattern |-> [kind |-> "WildcardPattern",
                                location |-> Loc(line, 57)],
                   guard |-> Null,
                   body |-> IdentifierAt("x", line, 62),
                   location |-> Loc(line, 57)]>>,
              location |-> Loc(line, 16)]>>,
           line)
    [] form = "l" ->
         FunctionDeclaration(
           "l", <<>>, <<>>,
           <<ExpressionStatementAt(
               [kind |-> "LambdaExpression",
                parameters |-> <<ParameterAt("a", line, 11)>>,
                body |-> IdentifierAt("a", line, 19),
                location |-> Loc(line, 10)])>>,
           line)
    [] form = "fa" ->
         FunctionDeclaration(
           "fa", <<ParameterAt("x", line, 7)>>,
           <<[kind |-> "RequiresAnnotation",
              condition |-> QuantifierAt("forall", "i",
                                         IdentifierAt("x", line, 37),
                                         line, 25),
              location |-> Loc(line, 15)]>>,
           <<ExpressionStatementAt(
               QuantifierAt("exists", "j", Null, line, 60))>>,
           line)
    [] form = "r" ->
         FunctionDeclaration(
           "r", <<ParameterAt("x", line, 6)>>, <<>>,
           <<[kind |-> "ForStatement",
              variable |-> IdentifierAt("i", line, 20),
              iterable |-> IdentifierAt("x", line, 25),
              invariants |->
                <<InvariantAt(OldEqualsAt("i", line, 38), line, 27)>>,
              body |-> <<ExpressionStatementAt(IdentifierAt("i", line, 54))>>,
              location |-> Loc(line, 16)]>>,
           line)
    [] form = "b" ->
         FunctionDeclaration(
           "b", <<>>, <<>>,
           <<[kind |-> "BlockStatement",
              statements |->
                <<[kind |-> "VariableDeclaration", name |-> "a",
                   type |-> Null,
                   initializer |-> LiteralAt("boolean", TRUE, line, 20),
                   location |-> Loc(line, 12)]>>,
              location |-> Loc(line, 10)],
             ExpressionStatementAt(IdentifierAt("a", line, 24))>>,
           line)
    [] form = "P" ->
         [kind |-> "StructDeclaration", name |-> "P",
          genericParams |-> <<>>,
          fields |-> <<[name |-> "a", type |-> PrimitiveType("Int", line, 15),
                        location |-> Loc(line, 12)]>>,
          invariants |->
            <<InvariantAt(
                [QuantifierAt("forall", "i", Null, line, 31)
                   EXCEPT !.condition = OldEqualsAt("i", line, 41)],
                line, 20)>>,
          location |-> Loc(line, 1)]
    [] form = "x" -> ExpressionStatementAt(IdentifierAt("x", line, 1))
    [] form = "a" -> ExpressionStatementAt(IdentifierAt("a", line, 1))

BodyPrograms ==
  { [k \in 1..Len(forms) |-> BodyOn(forms[k], k)] :
      forms \in SeqsUpTo(BodyForms, MaxBodyDecls) }

BodyInit ==
  /\ analyzer \in { NewAnalyzer(program) : program \in BodyPrograms }
  /\ lexer = NotCreated
  /\ parser = NotCreated
  /\ gen = NotCreated
  /\ comp = NotCreated
  /\ js = NotCreated
  /\ typing = NotCreated

BodySpec == BodyInit /\ [][AnalyzeNext]_vars

(***************************************************************************)
(* Claims about the contract mode and the scopes, on BodySpec              *)
(***************************************************************************)
\* The old, forall and exists expressions below a node, each with whether
\* it stands in an annotation or invariant (contract) or not: the body of an
\* annotation, a struct invariant and a loop invariant are in contract mode
\* whatever they hold, the statements of a function body are not, and any
\* other node is in the mode of the node around it.
RECURSIVE ContractUses(_, _)
ContractUses(node, contract) ==
  LET all(nodes, mode) ==
        UNION { ContractUses(nodes[k], mode) : k \in 1..Len(nodes) }
      conditions(annotations) ==
        UNION { ContractUses(annotations[k].condition, TRUE) :
                  k \in { j \in 1..Len(annotations) :
                            annotations[j].kind
                              \in {"RequiresAnnotation", "EnsuresAnnotation",
                                   "InvariantAnnotation"} } }
      optional(n, mode) == IF n = Null THEN {} ELSE ContractUses(n, mode)
  IN
  CASE node.kind = "FunctionDeclaration" ->
         conditions(node.annotations) \cup all(node.body, FALSE)
    [] node.kind = "StructDeclaration" -> conditions(node.invariants)
    [] node.kind = "WhileStatement" ->
         ContractUses(node.condition, contract)
           \cup conditions(node.invariants) \cup all(node.body, contract)
    [] node.kind = "ForStatement" ->
         ContractUses(node.iterable, contract)
           \cup conditions(node.invariants) \cup all(node.body, contract)
    [] node.kind = "MatchStatement" ->
         ContractUses(node.subject, contract)
           \cup UNION { optional(node.arms[k].guard, contract)
                          \cup ContractUses(node.arms[k].body, contract) :
                          k \in 1..Len(node.arms) }
    [] node.kind = "BlockStatement" -> all(node.statements, contract)
    [] node.kind = "ExpressionStatement" ->
         ContractUses(node.expression, contract)
    [] node.kind = "VariableDeclaration" ->
         optional(node.initializer, contract)
    [] node.kind = "BlockExpression" ->
         all(node.statements, contract) \cup optional(node.expression, contract)
    [] node.kind = "LambdaExpression" -> ContractUses(node.body, contract)
    [] node.kind = "BinaryExpression" ->
         ContractUses(node.left, contract)
           \cup ContractUses(node.right, contract)
    [] node.kind = "OldExpression" ->
         { [node |-> node, contract |-> contract] }
           \cup ContractUses(node.expression, contract)
    [] node.kind \in {"ForallExpression", "ExistsExpression"} ->
         { [node |-> node, contract |-> contract] }
           \cup UNION { optional(node.bindings[k].range, contract) :
                          k \in 1..Len(node.bindings) }
           \cup ContractUses(node.condition, contract)
    [] OTHER -> {}

\* The message of the error for the expression used outside a contract.
OutsideContract(node) ==
  (CASE node.kind = "OldExpression" -> "old()"
     [] node.kind = "ForallExpression" -> "forall"
     [] node.kind = "ExistsExpression" -> "exists")
    \o " can only be used in contract annotations"

\* analyze() reported that the expression is used outside a contract.
ReportedOutsideContract(node) ==
  \E j \in 1..Len(analyzer.errors) :
    /\ analyzer.errors[j].location = node.location
    /\ analyzer.errors[j].message = OutsideContract(node)

\* C27: every old, forall and exists checked in an annotation body, a
\* struct invariant or a loop invariant is accepted without error, being
\* checked in contract mode even after a nested invariant was left, and
\* every one in the statements of a function body is reported, being
\* checked in normal mode.
C27_ContractModeThroughout ==
  analyzer.pc = "done"
  => \A k \in 1..Len(analyzer.program) :
       \A use \in ContractUses(analyzer.program[k], FALSE) :
         ReportedOutsideContract(use.node) <=> ~use.contract

\* The scopes left open by a log of enterScope and exitScope calls when
\* every exit leaves the scope entered last, and <<"unbalanced">> when an
\* exit leaves another scope or no scope at all.
RECURSIVE OpenScopes(_, _)
OpenScopes(log, open) ==
  IF log = <<>> THEN open
  ELSE IF Head(log)[1] = "enter"
  THEN OpenScopes(Tail(log), Append(open, Head(log)[2]))
  ELSE IF open # <<>> /\ open[Len(open)] = Head(log)[2]
  THEN OpenScopes(Tail(log), SubSeq(open, 1, Len(open) - 1))
  ELSE <<"unbalanced">>

\* The identifiers x and a that stand where no scope that defines them is
\* open: the top-level statements x and a, and the a that follows the block
\* of fn b.
UsesAfterScope(stmt) ==
  CASE stmt.kind = "ExpressionStatement" -> {stmt.expression}
    [] stmt.kind = "FunctionDeclaration" /\ stmt.name = "b" ->
         {stmt.body[2].expression}
    [] OTHER -> {}

\* C28: scopes nest and unwind strictly: between two top-level statements
\* and when analyze() returns, every scope that was entered has been exited,
\* each exit leaving the scope entered last, the current scope is the global
\* scope, and a name defined in an exited scope does not resolve.
C28_ScopesUnwind ==
  /\ analyzer.scopes = <<>>
  /\ OpenScopes(analyzer.scopeLog, <<>>) = <<>>
  /\ analyzer.pc = "done"
     => \A k \in 1..Len(analyzer.program) :
          \A use \in UsesAfterScope(analyzer.program[k]) :
            \E j \in 1..Len(analyzer.errors) :
              /\ analyzer.errors[j].location = use.location
              /\ analyzer.errors[j].message
                   = "Undefined identifier: " \o use.name

\* analyze() has returned for a program in which a top-level x follows the
\* function with the match statement, the arms of which were entered and
\* left, the one of the tuple pattern by its early return.
C28_Witness ==
  /\ analyzer.pc = "done"
  /\ Len(analyzer.program) = 2
  /\ analyzer.program[1].kind = "FunctionDeclaration"
  /\ analyzer.program[1].name = "m"
  /\ analyzer.program[2].kind = "ExpressionStatement"
  /\ analyzer.program[2].expression.name = "x"
  /\ Len(SelectSeq(analyzer.scopeLog,
                   LAMBDA call : call = <<"exit", "match-arm">>)) = 3
  /\ \E j \in 1..Len(analyzer.errors) :
       analyzer.errors[j].message = "Expected tuple type for tuple pattern"

(***************************************************************************)
(* C29.  What the claim gives for an arm: its pattern matches the subject, *)
(* and its guard, evaluated with the names its pattern binds, is true.     *)
(***************************************************************************)
MatchSubject == js.env.variables[js.expr.subject.name]

GuardHolds(arm, subject, env) ==
  arm.guard # Null =>
    LET g == EvalLowered(arm.guard, patternBindings(arm.pattern, subject, env),
                         <<>>)
    IN  g.kind = "value" /\ g.value.n # 0

ArmApplies(arm, subject, env) ==
  /\ patternCheck(arm.pattern, subject)
  /\ GuardHolds(arm, subject, env)

BodyRan(i) ==
  \E k \in 1..Len(js.outcome.ops) : js.outcome.ops[k] = "arm" \o ToString(i)

\* C29: in the lowering of a match statement and of a match expression, the
\* body of an arm runs only when the pattern of the arm matches and its
\* guard, if any, is true, the guard being evaluated after the bindings of
\* the pattern are introduced (no guard fails for want of a name its pattern
\* binds); a last wildcard arm with a guard is no exception.
C29_ArmBodyOnlyWhenGuardHolds ==
  (js.pc \in {"returned", "threw"} /\ js.expr \in Matches) =>
    \A i \in 1..Len(js.expr.arms) :
      /\ BodyRan(i) => ArmApplies(js.expr.arms[i], MatchSubject, js.env)
      /\ (js.expr.arms[i].pattern.kind = "IdentifierPattern"
            /\ js.pc = "threw") =>
           js.outcome.value.s
             # js.expr.arms[i].pattern.name.name \o " is not defined"

(***************************************************************************)
(* C30.  The lines that refer to __intent: the guards and the snapshots    *)
(* (__intent.requires, __intent.ensures, __intent.clone) and every line    *)
(* whose expression holds the lowering of `e?`, __intent.unwrap.           *)
(***************************************************************************)
RefersToIntent(line) ==
  \/ line.op \in {"requires", "ensures", "snapshot"}
  \/ \E k \in 1..Len(line.code) : line.code[k] = "__intent.unwrap"

HelpersLines == { k \in 1..Len(gen.output) : gen.output[k].op = "helpers" }

\* C30: the emitted text refers to __intent only when the prelude has been
\* emitted: with runtimeContracts off no emitted line refers to __intent
\* (the lowering of `e?` included); with runtimeContracts on the prelude is
\* emitted exactly once, before every lowered declaration.
C30_IntentOnlyWithPrelude ==
  /\ ~gen.options.runtimeContracts =>
       \A k \in 1..Len(gen.output) : ~RefersToIntent(gen.output[k])
  /\ (gen.options.runtimeContracts /\ gen.pc # "generate") =>
       /\ HelpersLines = {1}
       /\ \A k \in 1..Len(gen.output) :
            gen.output[k].op = "function" => k > 1

=============================================================================
